---- MODULE Spec2Model ----
(***************************************************************************)
(* A model of the packer library (gford1000-go/packer): the facade Pack,   *)
(* PackKey, Unpack (pack.go), the V1 packing engine (item_packing_v1.go)   *)
(* and EncryptedItem.GetValues (encrypted_item.go).                        *)
(*                                                                         *)
(* Byte strings are modelled by what the engine does with them: a          *)
(* ciphertext is identified by the tuple it encodes and the key it was     *)
(* encrypted under, and a slice of it is a segment [c, lo, hi) of that     *)
(* ciphertext.  Decoding succeeds only on the whole ciphertext, under the  *)
(* key it was produced with (AES-GCM authenticates).  Go's nil is None,    *)
(* a present value x is Some(x).  Nondeterminism of the code (map          *)
(* iteration order, random row names, tie order of sort.Sort) is a set of  *)
(* outcomes.                                                               *)
(***************************************************************************)
EXTENDS Integers, Sequences, FiniteSets, TLC

VARIABLES pc, call, packed, ucall, unpacked, gcall, got, gcall2, got2, dcall, dres, gv

vars == <<pc, call, packed, ucall, unpacked, gcall, got, gcall2, got2, dcall, dres, gv>>

None == <<>>
Some(x) == <<x>>
Get(o) == o[1]

\* m[k] = v of a Go map: the new entry replaces an older one of the same key
Put(m, k, v) == (k :> v) @@ m

RECURSIVE Perms(_)
Perms(S) == IF S = {} THEN {<<>>}
            ELSE UNION {{<<x>> \o p : p \in Perms(S \ {x})} : x \in S}

RECURSIVE SumOver(_, _)
SumOver(f, S) == IF S = {} THEN 0
                 ELSE LET x == CHOOSE y \in S : TRUE
                      IN f[x] + SumOver(f, S \ {x})

(***************************************************************************)
(* Bounds of the model                                                     *)
(***************************************************************************)
\* most attributes in one item
MaxAttrs == 2
\* most row names drawn in one Pack call
MaxChunks == 4
\* longest sequence of T stored as one attribute
MaxSeqLen == 2
\* most providers one Decrypt is handed on through
MaxHops == 2
\* the names one GetValues call is followed through with at most
MaxTasks == 2

(***************************************************************************)
(* Program constants (pack.go)                                             *)
(***************************************************************************)
UnknownVersion == 0
V1 == 1
OutOfRange == 2

defaultAttributeNameSize == 6
defaultAttributeNameRetries == 1
minSize == 10 * 1024
defaultMaxSize == 350 * 1024
defaultAttributeMaxSize == 100 * 1024
defaultPackingVersion == V1

ErrParamsNoProvider == "ErrParamsNoProvider"
ErrParamsNoIDCreator == "ErrParamsNoIDCreator"
ErrParamsNoIDSerialiser == "ErrParamsNoIDSerialiser"
ErrParamsNoApproach == "ErrParamsNoApproach"
ErrPackNoAttributes == "ErrPackNoAttributes"
ErrPackNoParams == "ErrPackNoParams"
ErrUnsupportedPackVersion == "ErrUnsupportedPackVersion"
ErrMaxSizeTooSmall == "ErrMaxSizeTooSmall"
ErrKeyMustNotBeNil == "ErrKeyMustNotBeNil"
ErrDataLoaderIsNil == "ErrDataLoaderIsNil"
ErrIDRetrieverIsNil == "ErrIDRetrieverIsNil"
ErrProviderIsNil == "ErrProviderIsNil"
ErrUnpackNoData == "ErrUnpackNoData"
ErrUnpackNoParams == "ErrUnpackNoParams"
ErrUnpackInvalidData == "ErrUnpackInvalidData"
ErrInvalidDataToUnpack == "ErrInvalidDataToUnpack"
ErrInvalidDataToDeserialiseAttrMap == "ErrInvalidDataToDeserialiseAttrMap"
ErrInvalidDataToDeserialiseElements == "ErrInvalidDataToDeserialiseElements"
ErrUnableToCreateUniqueName == "ErrUnableToCreateUniqueName"
ErrKeyProviderDecryptError == "ErrKeyProviderDecryptError"
ErrKeyDeserialisationError == "ErrKeyDeserialisationError"

\* errors that come from the caller's collaborators
ErrCallback == "callback error"
ErrUnknownProviderID == "unknown provider id"
ErrCodec == "codec error"
\* the error of the AES-GCM decryptor when a ciphertext does not authenticate
ErrDecryptor == "cipher: message authentication failed"

\* fmt.Errorf("%v", r) of a recovered panic
Recovered(r) == "recovered: " \o r

(***************************************************************************)
(* Values of the codec: one typed element of a tuple given to ToBytesMany  *)
(***************************************************************************)
Bool(b) == [ty |-> "bool", b |-> b, i |-> 0, s |-> ""]
I64(i) == [ty |-> "int64", b |-> FALSE, i |-> i, s |-> ""]
Bytes(s) == [ty |-> "bytes", b |-> FALSE, i |-> 0, s |-> s]
Plain(s) == [ty |-> "any", b |-> FALSE, i |-> 0, s |-> s]

\* a byte string cut from ciphertext c: its bytes lo .. hi-1
Seg(c, lo, hi) == [c |-> c, lo |-> lo, hi |-> hi]
SegLen(b) == b.hi - b.lo
\* b[from:to] of Go
Slice(b, from, to) == Seg(b.c, b.lo + from, b.lo + to)

\* serialise.ToBytesMany(tuple, opts...) with WithAESGCMEncryption(dek): the
\* codec decides the length, which the modelled value carries
Encrypt(tuple, dek, len) == Seg([tuple |-> tuple, dek |-> dek, len |-> len], 0, len)

\* append(b, part...) over chunks: contiguous pieces of one ciphertext join
Join(bs, part) ==
    IF SegLen(part) = 0 THEN bs
    ELSE IF bs /= <<>> /\ bs[Len(bs)].c = part.c /\ bs[Len(bs)].hi = part.lo
         THEN [bs EXCEPT ![Len(bs)].hi = part.hi]
         ELSE Append(bs, part)

\* serialise.FromBytesMany(b, approach, WithAESGCMEncryption(key)): the tuple
\* when b is one whole ciphertext made under key, else the codec's error
Decrypt(bs, key) ==
    IF Len(bs) = 1 /\ bs[1].lo = 0 /\ bs[1].hi = bs[1].c.len /\ bs[1].c.dek = key
    THEN [err |-> "", tuple |-> bs[1].c.tuple]
    ELSE [err |-> ErrCodec, tuple |-> <<>>]

(***************************************************************************)
(* Options (pack.go)                                                       *)
(***************************************************************************)
\* the zero Options{} with the option functions applied: WithPackingVersion,
\* WithMaximumKBSize, WithAttributeValueMaximumKBSize, WithAttributeNameSize,
\* WithAttributeNameRetries (an option not given leaves the zero value)
ApplyOptions(opts) ==
    [packingVersion |-> opts.version,
     maxSize |-> opts.maxKB * 1024,
     maxAttrValueSize |-> opts.attrKB * 1024,
     attrNameSize |-> opts.nameSize,
     attrNameRetries |-> opts.retries]

DefaultVersion(o) ==
    IF o.packingVersion = UnknownVersion
    THEN [o EXCEPT !.packingVersion = defaultPackingVersion] ELSE o

DefaultNameSize(o) ==
    IF o.attrNameSize < 2
    THEN [o EXCEPT !.attrNameSize = defaultAttributeNameSize] ELSE o

DefaultRetries(o) ==
    IF o.attrNameRetries = 0
    THEN [o EXCEPT !.attrNameRetries = defaultAttributeNameRetries] ELSE o

DefaultMaxSize(o) ==
    IF o.maxSize = 0 THEN [o EXCEPT !.maxSize = defaultMaxSize] ELSE o

\* a check that also turns min_size itself away (C6 is tried against it)
MaxSizeTooSmall_inclusive(o) == o.maxSize <= minSize

\* "if o.maxSize < minSize"
MaxSizeTooSmall(o) == o.maxSize < minSize

DefaultAttrSize(o) ==
    IF o.maxAttrValueSize = 0
    THEN [o EXCEPT !.maxAttrValueSize = defaultAttributeMaxSize] ELSE o

ClampAttrSize(o) ==
    IF o.maxAttrValueSize > o.maxSize
    THEN [o EXCEPT !.maxAttrValueSize = o.maxSize] ELSE o

\* packItem's option block: the error, and the options in force
ResolveOptions(opts) ==
    LET o1 == DefaultMaxSize(DefaultRetries(DefaultNameSize(DefaultVersion(ApplyOptions(opts)))))
    IN IF MaxSizeTooSmall(o1) THEN [err |-> ErrMaxSizeTooSmall, o |-> o1]
       ELSE [err |-> "", o |-> ClampAttrSize(DefaultAttrSize(o1))]

(***************************************************************************)
(* PackParams (pack.go)                                                    *)
(***************************************************************************)
\* a validate that looks at Packer before Creator (C5 is tried against it)
PackParamsValidate_packerFirst(p) ==
    IF p.Provider = None THEN ErrParamsNoProvider
    ELSE IF p.Packer = None THEN ErrParamsNoIDSerialiser
    ELSE IF p.Creator = None THEN ErrParamsNoIDCreator
    ELSE IF p.Approach = None THEN ErrParamsNoApproach
    ELSE ""

PackParamsValidate(p) ==
    IF p.Provider = None THEN ErrParamsNoProvider
    ELSE IF p.Creator = None THEN ErrParamsNoIDCreator
    ELSE IF p.Packer = None THEN ErrParamsNoIDSerialiser
    ELSE IF p.Approach = None THEN ErrParamsNoApproach
    ELSE ""

(***************************************************************************)
(* The collaborators.  A callback works ("ok"), returns an error ("err")   *)
(* or panics ("panic").                                                    *)
(***************************************************************************)
\* IDSerialiser.Pack: the bytes of key t
PackerPack(packer, t) ==
    CASE packer.mode = "ok" -> [kind |-> "ok", err |-> "", b |-> Bytes(t)]
      [] packer.mode = "err" -> [kind |-> "err", err |-> ErrCallback, b |-> Bytes("")]
      [] OTHER -> [kind |-> "panic", err |-> "Packer.Pack", b |-> Bytes("")]

\* the nil T, for a key type T that is an interface type
NilT == "<nil>"

\* IDSerialiser.Unpack: the key of the bytes an IDSerialiser.Pack made; a
\* serialiser of mode "nil" is one of an interface type T that unpacks the
\* bytes of k1 to the nil T with no error (as a JSON serialiser of T = any
\* unpacks "null")
PackerUnpack(packer, e) ==
    CASE packer.mode = "panic" -> [kind |-> "panic", err |-> "Packer.Unpack", t |-> ""]
      [] packer.mode = "nil" /\ e.ty = "bytes" /\ e.s = "k1" -> [kind |-> "ok", err |-> "", t |-> NilT]
      [] packer.mode = "err" \/ e.ty /= "bytes" ->
            [kind |-> "err", err |-> ErrKeyDeserialisationError, t |-> ""]
      [] OTHER -> [kind |-> "ok", err |-> "", t |-> e.s]

\* the ids providers are made with
EnvelopeKeyIDs == {"Key1", "Key2"}

\* a finder that knows no provider: it returns its error for every id.  A
\* finder is given by the name of the provider it returns for each id, ""
\* where it returns its error.
NoFinder == [id \in EnvelopeKeyIDs |-> ""]

\* NewEnvelopeKeyProvider({ID: id, Key: mk}, finder): mode and dmode say
\* whether New and Decrypt work, return an error or panic (a provider of the
\* caller's own making may do either)
Provider(id, mk, mode, dmode) ==
    [id |-> id, mk |-> mk, mode |-> mode, dmode |-> dmode, finder |-> NoFinder]

\* the same provider, made with finder f
WithFinder(prov, f) == [prov EXCEPT !.finder = f]

\* the provider of the tests: its finder knows the provider itself
GoodProvider ==
    WithFinder(Provider("Key1", "m1", "ok", "ok"), [NoFinder EXCEPT !["Key1"] = "A"])

\* the providers finders return, by name: A; A2, made with A's id and another
\* master key; B, whose finder knows A; Bw, whose finder returns A2 for A's
\* id; Bx, whose finder knows nobody
ProviderNames == {"A", "A2", "B", "Bw", "Bx"}

Registered(name) ==
    CASE name = "A" -> GoodProvider
      [] name = "A2" -> Provider("Key1", "m2", "ok", "ok")
      [] name = "B" -> WithFinder(Provider("Key2", "m2", "ok", "ok"),
                                  [NoFinder EXCEPT !["Key1"] = "A"])
      [] name = "Bw" -> WithFinder(Provider("Key2", "m2", "ok", "ok"),
                                   [NoFinder EXCEPT !["Key1"] = "A2"])
      [] name = "C" -> WithFinder(Provider("Key2", "m2", "ok", "ok"),
                                  [NoFinder EXCEPT !["Key1"] = "B"])
      [] name = "L" -> WithFinder(Provider("Key2", "m2", "ok", "ok"),
                                  [NoFinder EXCEPT !["Key1"] = "L"])
      [] OTHER -> Provider("Key2", "m2", "ok", "ok")

\* providers whose finder returns, for A's id, a provider of another id: C,
\* whose finder returns B; L, whose finder returns L itself
OddProviderNames == {"C", "L"}

\* the wrapped DEK of evKeyProvider.New: the provider's id in clear and the
\* DEK encrypted under its master key
Wrap(prov, dek) == [id |-> prov.id, mk |-> prov.mk, dek |-> dek]

\* the 32 random bytes evKeyProvider.New mints
NewDek == "dek"

\* EnvelopeKeyProvider.New
ProviderNew(prov) ==
    CASE prov.mode = "ok" -> [kind |-> "ok", err |-> "", wrapped |-> Some(Wrap(prov, NewDek)), dek |-> NewDek]
      [] prov.mode = "err" -> [kind |-> "err", err |-> ErrCallback, wrapped |-> None, dek |-> ""]
      [] OTHER -> [kind |-> "panic", err |-> "Provider.New", wrapped |-> None, dek |-> ""]

\* IDCreator.ID, the n-th call: NewKeyCreator draws a new random key each
\* time, newKeyCreatorForTesting reseeds and so returns one key every time
CreatorID(creator, n) ==
    CASE creator = "fresh" -> [kind |-> "ok", t |-> <<"g1", "g2", "g3", "g4", "g5", "g6">>[n]]
      [] creator = "const" -> [kind |-> "ok", t |-> "g1"]
      [] OTHER -> [kind |-> "panic", t |-> ""]

(***************************************************************************)
(* V1 packing engine (item_packing_v1.go).  d is the engine: d.params,     *)
(* d.opts (the options in force) and d.dek (the key WithAESGCMEncryption   *)
(* was given).  Row names are drawn at random: what matters of a draw is   *)
(* whether it is a name already used, so the drawn name is one of the used *)
(* names or the next unused one, and names are numbered 1, 2, ...          *)
(***************************************************************************)
\* the names one draw of attrNameSize random characters can give
RandGen(existing) == existing \cup {Cardinality(existing) + 1}

\* len(k) of a row name
NameLen(d) == d.opts.attrNameSize

\* a loop body that never finds a drawn name taken (C4 is tried against it)
NameTaken_never(existing, s) == FALSE

\* one draw of uniqueAttributeName's loop body: whether name s is taken
NameTaken(existing, s) == s \in existing

\* a loop that draws once more than attrNameRetries allows (C29 is tried
\* against it)
RECURSIVE uniqueAttributeNameLoop_oneMore(_, _, _)
uniqueAttributeNameLoop_oneMore(d, existing, i) ==
    IF i > d.opts.attrNameRetries
    THEN {[err |-> ErrUnableToCreateUniqueName, name |-> 0, used |-> existing, draws |-> i]}
    ELSE UNION {IF ~NameTaken(existing, s)
                THEN {[err |-> "", name |-> s, used |-> existing \cup {s}, draws |-> i + 1]}
                ELSE uniqueAttributeNameLoop_oneMore(d, existing, i + 1)
                : s \in RandGen(existing)}

\* "for i := 0; i < int(d.opts.attrNameRetries); i++ { ... }" from round i
\* on: the name returned, the set as the call leaves it, the draws made
RECURSIVE uniqueAttributeNameLoop(_, _, _)
uniqueAttributeNameLoop(d, existing, i) ==
    IF i >= d.opts.attrNameRetries
    THEN {[err |-> ErrUnableToCreateUniqueName, name |-> 0, used |-> existing, draws |-> i]}
    ELSE UNION {IF ~NameTaken(existing, s)
                THEN {[err |-> "", name |-> s, used |-> existing \cup {s}, draws |-> i + 1]}
                ELSE uniqueAttributeNameLoop(d, existing, i + 1)
                : s \in RandGen(existing)}

uniqueAttributeName(d, existing) == uniqueAttributeNameLoop(d, existing, 0)

\* the result of createMaps and of its loops
MapsFail(kind, err, st) ==
    [kind |-> kind, err |-> err, used |-> st.used, drawn |-> st.drawn, attrMap |-> <<>>,
     valMap |-> <<>>, nPack |-> st.nPack]
MapsOk(st) ==
    [kind |-> "ok", err |-> "", used |-> st.used, drawn |-> st.drawn,
     attrMap |-> st.attrMap, valMap |-> st.valMap, nPack |-> st.nPack]

\* Packer.Pack of the keys ks[i..n] in turn, appended to tuple tt
RECURSIVE PackEach(_, _, _, _, _)
PackEach(d, ks, i, n, acc) ==
    IF i > n THEN acc
    ELSE LET r == PackerPack(Get(d.params.Packer), ks[i])
         IN IF r.kind /= "ok"
            THEN [kind |-> r.kind, err |-> r.err, tt |-> <<>>, calls |-> acc.calls + 1]
            ELSE PackEach(d, ks, i + 1, n,
                          [acc EXCEPT !.tt = Append(@, r.b), !.calls = @ + 1])

\* the loop bound of the []*T case: i <= len(vv)
SeqPtrLast(vv) == Len(vv) + 1

\* the type switch of createMaps: the prefix tuple of value v
PrefixTuple(d, v) ==
    LET start(tt) == [kind |-> "ok", err |-> "", tt |-> tt, calls |-> 0]
    IN CASE v.fam = "T" -> PackEach(d, v.ks, 1, 1, start(<<Bool(TRUE)>>))
         [] v.fam = "ptrT" -> PackEach(d, v.ks, 1, 1, start(<<Bool(FALSE)>>))
         [] v.fam = "seqT" ->
              PackEach(d, v.ks, 1, Len(v.ks), start(<<Bool(TRUE), I64(Len(v.ks))>>))
         [] v.fam = "seqPtrT" ->
              LET last == SeqPtrLast(v.ks)
                  r == PackEach(d, v.ks, 1, IF last > Len(v.ks) THEN Len(v.ks) ELSE last,
                                start(<<Bool(FALSE), I64(Len(v.ks))>>))
              IN IF r.kind = "ok" /\ last > Len(v.ks)
                 THEN [kind |-> "panic", err |-> "index out of range", tt |-> <<>>,
                       calls |-> r.calls]
                 ELSE r
         [] OTHER -> start(<<Plain(v.id)>>)

\* where the rest of the blob starts after a chunk was cut: b = b[maxSize:]
ChunkStep(d) == d.opts.maxSize

\* "for len(b) > maxAttrValueSize { ... }" and the last chunk, for attribute k
RECURSIVE chunkLoop(_, _, _, _)
chunkLoop(d, k, b, st) ==
    IF st.drawn >= MaxChunks
    THEN {MapsFail("overbound", "", st)}
    ELSE UNION {
        IF u.err /= "" THEN {MapsFail("err", u.err, st)}
        ELSE LET st1(chunk) == [st EXCEPT !.used = u.used, !.drawn = @ + 1,
                                          !.valMap = Put(@, u.name, chunk),
                                          !.attrMap = Put(@, k, Append(@[k], u.name))]
             IN IF SegLen(b) > d.opts.maxAttrValueSize
                THEN IF ChunkStep(d) > SegLen(b)
                     THEN {MapsFail("panic", "slice bounds out of range", st)}
                     ELSE chunkLoop(d, k, Slice(b, ChunkStep(d), SegLen(b)),
                                    st1(Slice(b, 0, d.opts.maxAttrValueSize)))
                ELSE {MapsOk(st1(b))}
        : u \in uniqueAttributeName(d, st.used)}

RECURSIVE createMapsLoop(_, _, _, _)
createMapsLoop(d, attrs, order, st) ==
    IF order = <<>> THEN {MapsOk(st)}
    ELSE LET k == Head(order)
             t == PrefixTuple(d, attrs[k])
             st0 == [st EXCEPT !.nPack = @ + t.calls, !.attrMap = Put(@, k, <<>>)]
         IN IF t.kind /= "ok" THEN {MapsFail(t.kind, t.err, st0)}
            ELSE UNION {IF r.kind /= "ok" THEN {r}
                        ELSE createMapsLoop(d, attrs, Tail(order), r)
                        : r \in chunkLoop(d, k, Encrypt(t.tt, d.dek, attrs[k].len), st0)}

\* createMaps, over every order in which Go may range over attrs
createMaps(d, attrs) ==
    UNION {createMapsLoop(d, attrs, order,
                          [used |-> {}, drawn |-> 0, attrMap |-> <<>>, valMap |-> <<>>,
                           nPack |-> 0])
           : order \in Perms(DOMAIN attrs)}

\* len(k) + len(v) of one pair of the chunk map
PairSize(d, vals, k) == NameLen(d) + SegLen(vals[k])
PairSizes(d, vals) == [k \in DOMAIN vals |-> PairSize(d, vals, k)]

\* the budget createElements starts from: int64(maxSize - minSize)
PrimaryBudget(d) == d.opts.maxSize - minSize

\* The first loop of createElements: "remaining" only falls, so the pairs
\* appended to rest are those ranged over from the first one that takes it
\* below zero; over all iteration orders these are the sets S below.
RestSets(d, vals) ==
    {S \in SUBSET DOMAIN vals :
        LET before == SumOver(PairSizes(d, vals), DOMAIN vals \ S)
        IN /\ PrimaryBudget(d) - before >= 0
           /\ S /= {} => \E k \in S : PrimaryBudget(d) - before - PairSize(d, vals, k) < 0}

\* sort.Sort(rest) with Less = len(v[i]) < len(v[j]): every arrangement in
\* ascending chunk length (sort.Sort is not stable, and rest starts in map order)
SortedRests(vals, S) ==
    {p \in Perms(S) : \A i \in 1..Len(p) - 1 : SegLen(vals[p[i]]) <= SegLen(vals[p[i + 1]])}

\* whether a pair of size sz goes into a bin already holding size bytes
FitsBin(d, size, sz) == size + sz < d.opts.maxSize

\* the first bin (by index, from i on) the pair fits, or 0
RECURSIVE FirstFit(_, _, _, _)
FirstFit(d, bins, sz, i) ==
    IF i > Len(bins) THEN 0
    ELSE IF FitsBin(d, bins[i].size, sz) THEN i
    ELSE FirstFit(d, bins, sz, i + 1)

\* "for _, bs := range rest { ... }": the bins after placing rest[i..]
RECURSIVE BinPack(_, _, _, _, _)
BinPack(d, vals, rest, i, bins) ==
    IF i > Len(rest) THEN bins
    ELSE LET sz == PairSize(d, vals, rest[i])
             j == FirstFit(d, bins, sz, 1)
         IN BinPack(d, vals, rest, i + 1,
                    IF j > 0
                    THEN [bins EXCEPT ![j] = [size |-> @.size + sz,
                                              content |-> Append(@.content, rest[i])]]
                    ELSE Append(bins, [size |-> sz, content |-> <<rest[i]>>]))

\* what the row keyed by the item's key holds
PrimaryRow(vals, rest) == vals

\* an allocation that leaves the new keys out of the element list (C25 is
\* tried against it)
RECURSIVE AllocateBins_unlisted(_, _, _, _, _)
AllocateBins_unlisted(d, vals, bins, i, acc) ==
    IF i > Len(bins) THEN acc
    ELSE LET c == CreatorID(Get(d.params.Creator), i)
         IN AllocateBins_unlisted(d, vals, bins, i + 1,
                [acc EXCEPT !.rows = Put(@, c.t, [k \in {bins[i].content[n] : n \in 1..Len(bins[i].content)}
                                                     |-> vals[k]]),
                            !.nID = @ + 1])

\* "for _, bin := range bins { ... }": one Creator.ID and one row per bin
RECURSIVE AllocateBins(_, _, _, _, _)
AllocateBins(d, vals, bins, i, acc) ==
    IF i > Len(bins) THEN acc
    ELSE LET c == CreatorID(Get(d.params.Creator), i)
         IN IF c.kind /= "ok"
            THEN [kind |-> "panic", err |-> "Creator.ID", elements |-> <<>>, rows |-> <<>>,
                  nID |-> acc.nID + 1]
            ELSE AllocateBins(d, vals, bins, i + 1,
                    [acc EXCEPT !.elements = Append(@, c.t),
                                !.rows = Put(@, c.t, [k \in {bins[i].content[n] : n \in 1..Len(bins[i].content)}
                                                         |-> vals[k]]),
                                !.nID = @ + 1])

\* createElements, over every order in which Go may range over vals
createElements(d, key, vals) ==
    {AllocateBins(d, vals, BinPack(d, vals, rest, 1, <<>>), 1,
                  [kind |-> "ok", err |-> "", elements |-> <<key>>,
                   rows |-> (key :> PrimaryRow(vals, rest)), nID |-> 0])
     : rest \in UNION {SortedRests(vals, S) : S \in RestSets(d, vals)}}

\* packAttrMap, then unpackAttrMap of its bytes: items [k, row names...];
\* an item of fewer than two strings is ErrInvalidDataToDeserialiseAttrMap
packAttrMap(attrMap) == {[k |-> k, rows |-> attrMap[k]] : k \in DOMAIN attrMap}

unpackAttrMap(items) ==
    IF \E it \in items : 1 + Len(it.rows) < 2
    THEN [err |-> ErrInvalidDataToDeserialiseAttrMap, attrMap |-> <<>>]
    ELSE [err |-> "", attrMap |-> [k \in {it.k : it \in items} |->
                                     (CHOOSE it \in items : it.k = k).rows]]

\* packElementsSlice: Packer.Pack of every element
packElementsSlice(d, elements) ==
    PackEach(d, elements, 1, Len(elements), [kind |-> "ok", err |-> "", tt |-> <<>>, calls |-> 0])

\* the result of pack: the outer frame, the row map, the calls made
PackFail(kind, err, nPack, nID) ==
    [kind |-> kind, err |-> err, outer |-> None, rows |-> None, nPack |-> nPack, nID |-> nID,
     attrMap |-> <<>>, valMap |-> <<>>]

\* the rest of pack once the chunk map m and the rows e are made
packFrames(d, item, encryptedKey, m, e) ==
    LET bKey == PackerPack(Get(d.params.Packer), item.Key)
        bEle == packElementsSlice(d, e.elements)
    IN IF bKey.kind /= "ok" THEN PackFail(bKey.kind, bKey.err, m.nPack + 1, e.nID)
       ELSE IF bEle.kind /= "ok"
       THEN PackFail(bEle.kind, bEle.err, m.nPack + 1 + bEle.calls, e.nID)
       ELSE [kind |-> "ok", err |-> "",
             outer |-> Some([tys |-> <<"bytes", "string", "string", "bytes">>,
                             encryptedKey |-> encryptedKey,
                             packer |-> Get(d.params.Packer).name,
                             approach |-> Get(d.params.Approach),
                             inner |-> [dek |-> d.dek,
                                        approach |-> Get(d.params.Approach),
                                        bKey |-> bKey.b,
                                        bAttrMap |-> packAttrMap(m.attrMap),
                                        bElements |-> bEle.tt]]),
             rows |-> Some(e.rows),
             nPack |-> m.nPack + 1 + bEle.calls, nID |-> e.nID,
             attrMap |-> m.attrMap, valMap |-> m.valMap]

\* itemPackingDetailsV1.pack
pack(d, item, encryptedKey) ==
    UNION {IF m.kind /= "ok" THEN {PackFail(m.kind, m.err, m.nPack, 0)}
           ELSE {IF e.kind /= "ok" THEN PackFail(e.kind, e.err, m.nPack, e.nID)
                 ELSE packFrames(d, item, encryptedKey, m, e)
                 : e \in createElements(d, item.Key, m.valMap)}
           : m \in createMaps(d, item.Attributes)}

(***************************************************************************)
(* The facade (pack.go)                                                    *)
(***************************************************************************)
\* what the call did on the way: the calls of Provider.New, Creator.ID and
\* Packer.Pack, the options in force, the maps createMaps made
Trace(nNew, nID, nPack, o, attrMap, valMap) ==
    [nNew |-> nNew, nID |-> nID, nPack |-> nPack, o |-> o, attrMap |-> attrMap,
     valMap |-> valMap]
NoTrace == Trace(0, 0, 0, None, <<>>, <<>>)

\* what Pack and PackKey hand back, and what the call did; kind "panic" is a
\* panic that leaves the call
Result(kind, e, info, itemData, tr) ==
    [kind |-> kind, e |-> e, info |-> info, itemData |-> itemData, tr |-> tr]

\* no deferred recover: a panic leaves the call (C8 is tried against it)
Recover_none(r) == r

\* the deferred recover of packItem and Unpack: a panic becomes the error e,
\* the other named results keep the value they had, which is nil
Recover(r) == IF r.kind = "panic" THEN [r EXCEPT !.kind = "err", !.e = Recovered(r.e)] ELSE r

\* the packing version written in front of the outer frame
PrefixVersion(o) == o.packingVersion

\* serialise.ToBytesMany([]any{int8(o.packingVersion), data}, V1)
Envelope(o, outer) ==
    [empty |-> FALSE, dec |-> TRUE, tys |-> <<"int8", "bytes">>, ver |-> PrefixVersion(o),
     outer |-> outer]

\* packItem behind its checks of params and options
packItemRun(item, params, o) ==
    LET k == ProviderNew(Get(params.Provider))
        d == [params |-> params, opts |-> o, dek |-> k.dek]
    IN IF k.kind /= "ok" THEN {Result(k.kind, k.err, None, None, Trace(1, 0, 0, Some(o), <<>>, <<>>))}
       ELSE IF o.packingVersion /= V1
       THEN {Result("err", ErrUnsupportedPackVersion, None, None, Trace(1, 0, 0, Some(o), <<>>, <<>>))}
       ELSE {IF r.kind /= "ok"
             THEN Result(r.kind, r.err, None, None, Trace(1, r.nID, r.nPack, Some(o), <<>>, <<>>))
             ELSE Result("ok", "", Some(Envelope(o, r.outer)), r.rows,
                         Trace(1, r.nID, r.nPack, Some(o), r.attrMap, r.valMap))
             : r \in pack(d, item, Get(k.wrapped))}

\* a packItem that asks the provider for its key before it looks at the
\* options (C7 is tried against it)
packItemBody_newFirst(item, params, opts) ==
    IF params = None THEN {Result("err", ErrPackNoParams, None, None, NoTrace)}
    ELSE IF PackParamsValidate(Get(params)) /= ""
    THEN {Result("err", PackParamsValidate(Get(params)), None, None, NoTrace)}
    ELSE IF ResolveOptions(opts).err /= ""
    THEN {Result("err", ResolveOptions(opts).err, None, None,
                 Trace(1, 0, 0, None, <<>>, <<>>))}
    ELSE packItemRun(item, Get(params), ResolveOptions(opts).o)

\* packItem between its deferred recover and its return
packItemBody(item, params, opts) ==
    IF params = None THEN {Result("err", ErrPackNoParams, None, None, NoTrace)}
    ELSE IF PackParamsValidate(Get(params)) /= ""
    THEN {Result("err", PackParamsValidate(Get(params)), None, None, NoTrace)}
    ELSE IF ResolveOptions(opts).err /= ""
    THEN {Result("err", ResolveOptions(opts).err, None, None, NoTrace)}
    ELSE packItemRun(item, Get(params), ResolveOptions(opts).o)

packItem(item, params, opts) == {Recover(r) : r \in packItemBody(item, params, opts)}

\* Pack's own check, made before packItem
PackNoAttributes(item) == item = None \/ DOMAIN Get(item).Attributes = {}

Pack(item, params, opts) ==
    IF PackNoAttributes(item) THEN {Result("err", ErrPackNoAttributes, None, None, NoTrace)}
    ELSE packItem(Get(item), params, opts)

\* PackKey: the row map of packItem is dropped
PackKey(key, params, opts) ==
    IF key = None THEN {Result("err", ErrKeyMustNotBeNil, None, None, NoTrace)}
    ELSE {[r EXCEPT !.itemData = None]
          : r \in packItem([Key |-> Get(key), Attributes |-> <<>>], params, opts)}

(***************************************************************************)
(* Unpack (pack.go) and itemPackingDetailsV1.unpack                        *)
(***************************************************************************)
\* a validate that looks at Provider first (C9 is tried against it)
UnpackParamsValidate_providerFirst(u) ==
    IF u.Provider = None THEN ErrProviderIsNil
    ELSE IF u.DataLoader = None THEN ErrDataLoaderIsNil
    ELSE IF u.IDRetriever = None THEN ErrIDRetrieverIsNil
    ELSE ""

UnpackParamsValidate(u) ==
    IF u.DataLoader = None THEN ErrDataLoaderIsNil
    ELSE IF u.IDRetriever = None THEN ErrIDRetrieverIsNil
    ELSE IF u.Provider = None THEN ErrProviderIsNil
    ELSE ""

\* what Unpack hands back, with the collaborators called, in order
UResult(kind, e, item, calls) == [kind |-> kind, e |-> e, item |-> item, calls |-> calls]

\* the approaches serialise.GetApproach knows by name
KnownApproaches == {"MinDataV1", "Default"}

\* a GetIDSerialiser of the caller
IDRetrieve(retr, name) ==
    CASE retr = "ok" -> [kind |-> "ok", err |-> "", packer |-> [name |-> name, mode |-> "ok"]]
      [] retr = "badPacker" -> [kind |-> "ok", err |-> "", packer |-> [name |-> name, mode |-> "err"]]
      [] retr = "panicPacker" -> [kind |-> "ok", err |-> "", packer |-> [name |-> name, mode |-> "panic"]]
      [] retr = "nilPacker" -> [kind |-> "ok", err |-> "", packer |-> [name |-> name, mode |-> "nil"]]
      [] retr = "err" -> [kind |-> "err", err |-> ErrCallback, packer |-> [name |-> "", mode |-> "err"]]
      [] OTHER -> [kind |-> "panic", err |-> "IDRetriever", packer |-> [name |-> "", mode |-> "err"]]

\* what Decrypt hands back: the raw DEK or the error, and finds, the ids of
\* the providers whose finder was consulted, in order; kind "diverges" is a
\* Decrypt handed on more than MaxHops times
DekResult(kind, err, dek, finds) == [kind |-> kind, err |-> err, dek |-> dek, finds |-> finds]

\* a decryptor that takes a ciphertext made under any key (C11 is tried
\* against it)
LocalDecrypt_anyKey(prov, w) == DekResult("ok", "", w.dek, <<>>)

\* e.dec(key): the raw DEK when the ciphertext of w authenticates under the
\* provider's master key (w.mk is the key it was made under), else the
\* decryptor's error
LocalDecrypt(prov, w) ==
    IF prov.mk = w.mk THEN DekResult("ok", "", w.dek, <<>>)
    ELSE DekResult("err", ErrDecryptor, "", <<>>)

\* a Decrypt that hides the finder's error behind its own (C12 is tried
\* against it)
FinderFailed_masked(prov) == DekResult("err", ErrKeyProviderDecryptError, "", <<prov.id>>)

\* "other, err := e.finder(id); if err != nil { return nil, err }"
FinderFailed(prov) == DekResult("err", ErrUnknownProviderID, "", <<prov.id>>)

\* a Decrypt that asks its finder whatever id the wrapped DEK names (C30 is
\* tried against it)
NamesOther_always(prov, w) == TRUE

\* "if EnvelopeKeyID(id) != e.id"
NamesOther(prov, w) == w.id /= prov.id

\* evKeyProvider.Decrypt of a well-formed wrapped DEK w: its own id decrypts
\* with the master key, another id is looked up with the finder and the
\* provider found is handed the same wrapped DEK
RECURSIVE ProviderDecryptFrom(_, _, _)
ProviderDecryptFrom(prov, w, hops) ==
    CASE prov.dmode = "err" -> DekResult("err", ErrCallback, "", <<>>)
      [] prov.dmode = "panic" -> DekResult("panic", "Provider.Decrypt", "", <<>>)
      [] NamesOther(prov, w) ->
            IF prov.finder[w.id] = ""
            THEN FinderFailed(prov)
            ELSE IF hops >= MaxHops THEN DekResult("diverges", "", "", <<prov.id>>)
            ELSE LET r == ProviderDecryptFrom(Registered(prov.finder[w.id]), w, hops + 1)
                 IN [r EXCEPT !.finds = <<prov.id>> \o @]
      [] OTHER -> LocalDecrypt(prov, w)

ProviderDecrypt(prov, w) == ProviderDecryptFrom(prov, w, 0)

\* Packer.Unpack of every element of the element list
RECURSIVE UnpackEach(_, _, _, _)
UnpackEach(packer, bs, i, acc) ==
    IF i > Len(bs) THEN acc
    ELSE IF bs[i].ty /= "bytes"
    THEN [kind |-> "err", err |-> ErrInvalidDataToDeserialiseElements, ts |-> <<>>]
    ELSE LET r == PackerUnpack(packer, bs[i])
         IN IF r.kind /= "ok" THEN [kind |-> r.kind, err |-> r.err, ts |-> <<>>]
            ELSE UnpackEach(packer, bs, i + 1, [acc EXCEPT !.ts = Append(@, r.t)])

unpackElementsSlice(packer, bs) == UnpackEach(packer, bs, 1, [kind |-> "ok", err |-> "", ts |-> <<>>])

\* the rows of store under keys[i..], merged into one map as the loaders of
\* the tests do (a later row's entry replaces an earlier one of the same name)
RECURSIVE MergeRows(_, _, _, _)
MergeRows(store, keys, i, acc) ==
    IF i > Len(keys) THEN acc
    ELSE MergeRows(store, keys, i + 1,
                   IF keys[i] \in DOMAIN store THEN store[keys[i]] @@ acc ELSE acc)

\* the map md without one of its names
WithoutOne(md) ==
    IF DOMAIN md = {} THEN md
    ELSE LET n == CHOOSE x \in DOMAIN md : TRUE
         IN [k \in DOMAIN md \ {n} |-> md[k]]

\* the map md with a name no Pack drew (names are numbered from 1), for
\* bytes no Pack made
WithOneMore(md) == [k \in DOMAIN md \cup {0} |-> IF k = 0 THEN Encrypt(<<>>, "", 1) ELSE md[k]]

\* a DataLoader of the caller over the rows a Pack returned: all the rows of
\* the elements asked for, none, all but one name, one name more, an error
Load(loader, store, keys) ==
    CASE loader = "rows" -> [kind |-> "ok", err |-> "", md |-> MergeRows(store, keys, 1, <<>>)]
      [] loader = "short" ->
           [kind |-> "ok", err |-> "", md |-> WithoutOne(MergeRows(store, keys, 1, <<>>))]
      [] loader = "more" ->
           [kind |-> "ok", err |-> "", md |-> WithOneMore(MergeRows(store, keys, 1, <<>>))]
      [] loader = "nil" -> [kind |-> "ok", err |-> "", md |-> <<>>]
      [] loader = "err" -> [kind |-> "err", err |-> ErrCallback, md |-> <<>>]
      [] OTHER -> [kind |-> "panic", err |-> "DataLoader", md |-> <<>>]

\* a reassembly that passes over the names the loader did not return (C24
\* is tried against it)
RECURSIVE Reassemble_skipping(_, _, _, _)
Reassemble_skipping(md, rows, i, b) ==
    IF i > Len(rows) THEN Some(b)
    ELSE Reassemble_skipping(md, rows, i + 1,
                             IF rows[i] \in DOMAIN md THEN Join(b, md[rows[i]]) ELSE b)

\* "for k, v := range attrMap { ... }": the chunks of rows[i..] appended to b
RECURSIVE Reassemble(_, _, _, _)
Reassemble(md, rows, i, b) ==
    IF i > Len(rows) THEN Some(b)
    ELSE IF rows[i] \notin DOMAIN md THEN None
    ELSE Reassemble(md, rows, i + 1, Join(b, md[rows[i]]))

\* an unpack that hides the loader's error behind its own (C23 is tried
\* against it)
LoaderFailed_masked(ld, calls) == UResult("err", ErrInvalidDataToUnpack, None, calls)

\* "md, err := loader(ctx, elements); if err != nil { return nil, err }"
LoaderFailed(ld, calls) == UResult(ld.kind, ld.err, None, calls)

\* itemPackingDetailsV1.unpack of the outer frame behind its decoding
unpackOuter(outer, u, store) ==
    LET retr == IDRetrieve(Get(u.IDRetriever), outer.packer)
        dec == ProviderDecrypt(Get(u.Provider), outer.encryptedKey)
        in == outer.inner
        key == PackerUnpack(retr.packer, in.bKey)
        am == unpackAttrMap(in.bAttrMap)
        el == unpackElementsSlice(retr.packer, in.bElements)
        ld == Load(Get(u.DataLoader), store, el.ts)
        c1 == <<"IDRetriever">>
        c2 == <<"IDRetriever", "Decrypt">>
        c3 == <<"IDRetriever", "Decrypt", "DataLoader">>
    IN IF Len(outer.tys) /= 4 \/ outer.tys[1] /= "bytes" \/ outer.tys[2] /= "string"
       THEN UResult("err", ErrInvalidDataToUnpack, None, <<>>)
       ELSE IF retr.kind /= "ok" THEN UResult(retr.kind, retr.err, None, c1)
       ELSE IF outer.tys[3] /= "string" THEN UResult("err", ErrInvalidDataToUnpack, None, c1)
       ELSE IF outer.approach \notin KnownApproaches THEN UResult("err", ErrCodec, None, c1)
       ELSE IF outer.tys[4] /= "bytes" THEN UResult("err", ErrInvalidDataToUnpack, None, c1)
       ELSE IF dec.kind /= "ok" THEN UResult(dec.kind, dec.err, None, c2)
       ELSE IF in.dek /= dec.dek \/ in.approach /= outer.approach
       THEN UResult("err", ErrCodec, None, c2)
       ELSE IF in.bKey.ty /= "bytes" THEN UResult("err", ErrInvalidDataToUnpack, None, c2)
       ELSE IF key.kind /= "ok" THEN UResult(key.kind, key.err, None, c2)
       ELSE IF am.err /= "" THEN UResult("err", am.err, None, c2)
       ELSE IF el.kind /= "ok" THEN UResult(el.kind, el.err, None, c2)
       ELSE IF ld.kind /= "ok" THEN LoaderFailed(ld, c3)
       ELSE IF \E k \in DOMAIN am.attrMap : Reassemble(ld.md, am.attrMap[k], 1, <<>>) = None
       THEN UResult("err", ErrInvalidDataToUnpack, None, c3)
       ELSE UResult("ok", "",
                    Some([key |-> key.t,
                          approach |-> outer.approach,
                          encryptedKey |-> outer.encryptedKey,
                          attributes |-> [k \in DOMAIN am.attrMap |->
                                            Get(Reassemble(ld.md, am.attrMap[k], 1, <<>>))],
                          packer |-> retr.packer]),
                    c3)

\* a switch that takes every version from V1 up (C10 is tried against it)
VersionSupported_fromV1(ver) == ver >= V1

\* "switch PackVersion(packingVersion) { case V1: ... default: ... }"
VersionSupported(ver) == ver = V1

UnpackBody(data, params, store) ==
    IF data.empty THEN UResult("err", ErrUnpackNoData, None, <<>>)
    ELSE IF params = None THEN UResult("err", ErrUnpackNoParams, None, <<>>)
    ELSE IF UnpackParamsValidate(Get(params)) /= ""
    THEN UResult("err", UnpackParamsValidate(Get(params)), None, <<>>)
    ELSE IF ~data.dec THEN UResult("err", ErrCodec, None, <<>>)
    ELSE IF Len(data.tys) /= 2 \/ data.tys[1] /= "int8" \/ data.tys[2] /= "bytes"
    THEN UResult("err", ErrUnpackInvalidData, None, <<>>)
    ELSE IF ~VersionSupported(data.ver)
    THEN UResult("err", ErrUnsupportedPackVersion, None, <<>>)
    ELSE IF data.outer = None THEN UResult("err", ErrCodec, None, <<>>)
    ELSE unpackOuter(Get(data.outer), Get(params), store)

\* Unpack; store is what the caller's DataLoader reads from
Unpack(data, params, store) == Recover(UnpackBody(data, params, store))

\* an UnpackKey that returns the zero key (C18 is tried against it)
UnpackKeyOf_zero(r) ==
    [kind |-> r.kind, e |-> r.e, item |-> None, calls |-> r.calls,
     key |-> IF r.kind = "ok" THEN Some("") ELSE None]

\* what UnpackKey makes of the result r of Unpack: "return nil, err" or
\* "return &item.key, nil"
UnpackKeyOf(r) ==
    [kind |-> r.kind, e |-> r.e, item |-> None, calls |-> r.calls,
     key |-> IF r.kind = "ok" THEN Some(Get(r.item).key) ELSE None]

\* UnpackKey
UnpackKey(data, params, store) == UnpackKeyOf(Unpack(data, params, store))

(***************************************************************************)
(* EncryptedItem.GetValues (encrypted_item.go)                             *)
(***************************************************************************)
\* a decoded attribute value: its family, its keys, its plain content
Val(fam, ks, id) == [fam |-> fam, ks |-> ks, id |-> id]

\* what one task sends on the channel: kind "none" is resp.v == nil with no
\* error, kind "panic" is a panic in the task's goroutine
Resp(a, kind, v, e) == [a |-> a, kind |-> kind, v |-> v, e |-> e]

\* "for i := range size { ... v[i+2] ... }": the keys of v[3..size+2]
RECURSIVE UnpackSeq(_, _, _, _, _)
UnpackSeq(packer, v, size, i, acc) ==
    IF i > size THEN acc
    ELSE IF i + 2 > Len(v) THEN [kind |-> "panic", err |-> "index out of range", ts |-> <<>>]
    ELSE IF v[i + 2].ty /= "bytes" THEN [kind |-> "err", err |-> ErrInvalidDataToUnpack, ts |-> <<>>]
    ELSE LET r == PackerUnpack(packer, v[i + 2])
         IN IF r.kind = "panic" THEN [kind |-> "panic", err |-> r.err, ts |-> <<>>]
            ELSE IF r.kind /= "ok" THEN [kind |-> "err", err |-> ErrInvalidDataToUnpack, ts |-> <<>>]
            ELSE UnpackSeq(packer, v, size, i + 1, [acc EXCEPT !.ts = Append(@, r.t)])

\* the switch on len(v) of a task, for the decoded tuple v of attribute a
DecodeTuple(e, a, v) ==
    LET bad == Resp(a, "err", Val("", <<>>, ""), ErrInvalidDataToUnpack)
    IN CASE Len(v) = 0 -> bad
         [] Len(v) = 1 -> IF v[1].ty = "nil" THEN Resp(a, "none", Val("", <<>>, ""), "")
                          ELSE Resp(a, "ok", Val("plain", <<>>, v[1].s), "")
         [] Len(v) = 2 ->
              IF v[1].ty /= "bool" \/ v[2].ty /= "bytes" THEN bad
              ELSE LET r == PackerUnpack(e.packer, v[2])
                   IN IF r.kind = "panic" THEN Resp(a, "panic", Val("", <<>>, ""), r.err)
                      ELSE IF r.kind /= "ok" THEN bad
                      ELSE IF v[1].b /\ r.t = NilT THEN Resp(a, "none", Val("", <<>>, ""), "")
                      ELSE Resp(a, "ok", Val(IF v[1].b THEN "T" ELSE "ptrT", <<r.t>>, ""), "")
         [] OTHER ->
              IF v[1].ty /= "bool" \/ v[2].ty /= "int64" THEN bad
              ELSE IF v[2].i < 0
              THEN Resp(a, "panic", Val("", <<>>, ""), "makeslice: len out of range")
              ELSE LET r == UnpackSeq(e.packer, v, v[2].i, 1, [kind |-> "ok", err |-> "", ts |-> <<>>])
                   IN IF r.kind = "panic" THEN Resp(a, "panic", Val("", <<>>, ""), r.err)
                      ELSE IF r.kind /= "ok" THEN bad
                      ELSE Resp(a, "ok", Val(IF v[1].b THEN "seqT" ELSE "seqPtrT", r.ts, ""), "")

\* the body of one task: the response for the requested name attr
Task(e, attr, key) ==
    IF attr \notin DOMAIN e.attributes THEN Resp(attr, "none", Val("", <<>>, ""), "")
    ELSE LET v == Decrypt(e.attributes[attr], key)
         IN IF v.err /= "" THEN Resp(attr, "err", Val("", <<>>, ""), v.err)
            ELSE DecodeTuple(e, attr, v.tuple)

\* what GetValues hands back: the map (nil is None) and the error; kind
\* "panic" is a panic of a task, which nothing recovers.  item is the
\* EncryptedItem as the call leaves it, calls the calls made to the provider.
GResult(kind, e, m, item, calls) ==
    [kind |-> kind, e |-> e, m |-> m, item |-> item, calls |-> calls]

\* a GetValues that looks at the provider before the names (C14 is tried
\* against it)
GetValuesEarly_providerFirst(e, attrs, provider) ==
    IF provider = None THEN Some(GResult("err", ErrProviderIsNil, None, e, <<>>))
    ELSE IF Len(attrs) = 0 THEN Some(GResult("ok", "", Some(<<>>), e, <<>>))
    ELSE None

\* the returns of GetValues before it calls the provider
GetValuesEarly(e, attrs, provider) ==
    IF Len(attrs) = 0 THEN Some(GResult("ok", "", Some(<<>>), e, <<>>))
    ELSE IF provider = None THEN Some(GResult("err", ErrProviderIsNil, None, e, <<>>))
    ELSE None

\* the responses that carry a value: "resp.v != nil"
Present(resps) == {r \in resps : r.kind = "ok"}

\* a gather loop that returns the map built so far with the error (C16 is
\* tried against it)
Failed_partial(resps, e) ==
    {GResult("err", r.e, Some([a \in {x.a : x \in Present(resps)} |->
                                  (CHOOSE x \in Present(resps) : x.a = a).v]),
             e, <<"Decrypt">>)
        : r \in {x \in resps : x.kind = "err"}}

\* "if resp.e != nil { return nil, resp.e }": the tasks may finish in any
\* order, so any failed task's error may be the first one read
Failed(resps, e) ==
    {GResult("err", r.e, None, e, <<"Decrypt">>) : r \in {x \in resps : x.kind = "err"}}

\* the map built from the responses read off the channel:
\* "if resp.v != nil { m[resp.a] = resp.v }"
Gather(resps) ==
    [a \in {r.a : r \in Present(resps)} |-> (CHOOSE r \in Present(resps) : r.a = a).v]

\* GetValues
GetValues(e, attrs, provider) ==
    IF GetValuesEarly(e, attrs, provider) /= None
    THEN {Get(GetValuesEarly(e, attrs, provider))}
    ELSE LET k == ProviderDecrypt(Get(provider), e.encryptedKey)
             resps == {Task(e, attrs[i], k.dek) : i \in 1..Len(attrs)}
         IN IF k.kind = "panic" THEN {GResult("panic", k.err, None, e, <<"Decrypt">>)}
            ELSE IF k.kind /= "ok" THEN {GResult("err", k.err, None, e, <<"Decrypt">>)}
            ELSE IF \E r \in resps : r.kind = "panic"
            THEN {GResult("panic", (CHOOSE r \in resps : r.kind = "panic").e, None, e,
                          <<"Decrypt">>)}
            ELSE IF \E r \in resps : r.kind = "err" THEN Failed(resps, e)
            ELSE {GResult("ok", "", Some(Gather(resps)), e, <<"Decrypt">>)}

(***************************************************************************)
(* The inputs the calls are tried on                                       *)
(***************************************************************************)
Value(fam, ks, id, len) == [fam |-> fam, ks |-> ks, id |-> id, len |-> len]

\* sequences of keys of length 0 .. n
KeySeqs(n) == UNION {[1..m -> {"k1", "k2"}] : m \in 0..n}

\* plain codec values by the length of their encrypted blob: below every
\* limit; above 5 KiB; above 10 KiB; above 350 KiB; a 1,200,000-byte string
PlainValues ==
    {Value("plain", <<>>, "x", 100), Value("plain", <<>>, "y", 6000),
     Value("plain", <<>>, "z", 12000), Value("plain", <<>>, "v", 408400),
     Value("plain", <<>>, "w", 1200000 + 28)}

KeyValues ==
    {Value("T", <<"k1">>, "", 60), Value("ptrT", <<"k2">>, "", 60)}
    \cup {Value("seqT", ks, "", 80) : ks \in {q \in KeySeqs(MaxSeqLen) : q = <<>> \/ q[1] = "k1"}}
    \cup {Value("seqPtrT", ks, "", 80) : ks \in {<<>>, <<"k1">>}}

\* the values items of several attributes are made of
CoreValues ==
    {Value("plain", <<>>, "x", 100), Value("plain", <<>>, "y", 6000),
     Value("plain", <<>>, "v", 408400), Value("T", <<"k1">>, "", 60)}

AttrNames == <<"a", "b", "c", "d">>

AttrMaps ==
    [{"a"} -> PlainValues \cup KeyValues]
    \cup UNION {[{AttrNames[i] : i \in 1..n} -> CoreValues] : n \in 2..MaxAttrs}
    \cup {[n \in {"a", "b"} |-> IF n = "a" THEN Value("plain", <<>>, "z", 12000)
                                 ELSE Value("seqT", <<>>, "", 80)]}

Item(key, attrs) == [Key |-> key, Attributes |-> attrs]

Items == {Some(Item("A", m)) : m \in AttrMaps}

\* the items the checks of the arguments are tried on
BasicItems ==
    {None, Some(Item("A", <<>>)),
     Some(Item("A", [n \in {"a"} |-> Value("T", <<"k1">>, "", 60)])),
     Some(Item("A", [n \in {"a"} |-> Value("plain", <<>>, "x", 100)]))}

Opts(version, maxKB, attrKB) ==
    [version |-> version, maxKB |-> maxKB, attrKB |-> attrKB, nameSize |-> 0, retries |-> 0]

AllOpts ==
    {Opts(0, m, a) : m \in {0, 5, 10}, a \in {0, 5, 400}} \cup {Opts(V1, 0, 0)}
    \cup {[Opts(0, 10, a) EXCEPT !.nameSize = 3, !.retries = 2] : a \in {0, 5}}

BasicOpts == {Opts(0, 0, 0), Opts(0, 5, 0), Opts(0, 10, 0)}

GoodPacker == [name |-> "KeyV1", mode |-> "ok"]

Params(provider, creator, packer, approach) ==
    [Provider |-> provider, Creator |-> creator, Packer |-> packer, Approach |-> approach]

GoodParams == Some(Params(Some(GoodProvider), Some("fresh"), Some(GoodPacker), Some("MinDataV1")))

\* params with a field missing, and params whose collaborator fails
ParamVariants ==
    {None}
    \cup {Some(Params(p, c, k, a)) :
            p \in {None, Some(GoodProvider)}, c \in {None, Some("fresh")},
            k \in {None, Some(GoodPacker)}, a \in {None, Some("MinDataV1")}}
    \cup {Some(Params(Some(Provider("Key1", "m1", m, "ok")), Some("fresh"), Some(GoodPacker),
                      Some("MinDataV1"))) : m \in {"err", "panic"}}
    \cup {Some(Params(Some(GoodProvider), Some(c), Some(GoodPacker), Some("MinDataV1")))
            : c \in {"const", "panic"}}
    \cup {Some(Params(Some(GoodProvider), Some("fresh"), Some([name |-> "KeyV1", mode |-> m]),
                      Some("MinDataV1"))) : m \in {"err", "panic"}}

PackInputs ==
    (Items \X {GoodParams} \X AllOpts) \cup (BasicItems \X ParamVariants \X BasicOpts)

PackKeyInputs == {None, Some("A"), Some("")} \X ParamVariants \X BasicOpts

UParams(loader, retriever, provider) ==
    [DataLoader |-> loader, IDRetriever |-> retriever, Provider |-> provider]

GoodUParams == Some(UParams(Some("rows"), Some("ok"), Some(GoodProvider)))

UParamVariants ==
    {None}
    \cup {Some(UParams(l, r, p)) :
            l \in {None, Some("rows")}, r \in {None, Some("ok")}, p \in {None, Some(GoodProvider)}}
    \cup {Some(UParams(Some(l), Some("ok"), Some(GoodProvider))) : l \in {"nil", "err", "panic", "short", "more"}}
    \cup {Some(UParams(Some("rows"), Some(r), Some(GoodProvider)))
            : r \in {"err", "panic", "badPacker", "panicPacker", "nilPacker"}}
    \cup {Some(UParams(Some("rows"), Some("ok"), Some(Registered(n)))) : n \in ProviderNames}
    \cup {Some(UParams(Some("rows"), Some("ok"), Some(Provider("Key1", "m1", "ok", m))))
            : m \in {"err", "panic"}}
    \cup {Some(UParams(Some("rows"), Some("ok"), Some(Provider("Key2", "m2", "ok", "ok"))))}

\* data of length zero (a nil slice too)
NoData == [empty |-> TRUE, dec |-> FALSE, tys |-> <<>>, ver |-> 0, outer |-> None]

\* data Pack never made: not decodable; tuples of one and three elements; a
\* version that is no int8; an outer frame that is no byte string; versions
\* other than V1 in front of undecodable bytes
CraftedData ==
    {NoData, [NoData EXCEPT !.empty = FALSE]}
    \cup {[empty |-> FALSE, dec |-> TRUE, tys |-> t, ver |-> v, outer |-> None] :
            t \in {<<"int8">>, <<"int8", "bytes", "bytes">>, <<"string", "bytes">>,
                   <<"int8", "string">>, <<"int8", "bytes">>},
            v \in {-1, UnknownVersion, V1, OutOfRange, OutOfRange + 1}}

\* the raw DEKs a provider's New returns on two calls
SomeDeks == {NewDek, "dek2"}

\* the ciphertext of wrapped DEK w with a byte changed: it authenticates
\* under no key
Tamper(w) == [w EXCEPT !.mk = "tampered"]

\* Decrypt is tried with every provider on what every provider's New
\* returned, as returned and tampered with
DecryptInputs ==
    {[by |-> b, minter |-> m, raw |-> d, tampered |-> t,
      w |-> IF t THEN Tamper(Wrap(Registered(m), d)) ELSE Wrap(Registered(m), d)]
        : b \in ProviderNames \cup OddProviderNames, m \in ProviderNames,
          d \in SomeDeks, t \in BOOLEAN}

(***************************************************************************)
(* The calls                                                               *)
(***************************************************************************)
Init ==
    /\ pc = "idle"
    /\ call = None
    /\ packed = None
    /\ ucall = None
    /\ unpacked = None
    /\ gcall = None
    /\ got = None
    /\ gcall2 = None
    /\ got2 = None
    /\ dcall = None
    /\ dres = None
    /\ gv = None

\* Pack(item, params, opts...)
PackCall ==
    /\ pc = "idle"
    /\ \E in \in PackInputs :
         LET rs == Pack(in[1], in[2], in[3])
         IN /\ \A r \in rs : r.kind /= "overbound"
            /\ \E r \in rs :
                 /\ call' = Some([op |-> "Pack", item |-> in[1], key |-> None,
                                  params |-> in[2], opts |-> in[3]])
                 /\ packed' = Some(r)
    /\ pc' = "packed"
    /\ UNCHANGED <<ucall, unpacked, gcall, got, gcall2, got2, dcall, dres, gv>>

\* PackKey(key, params, opts...)
PackKeyCall ==
    /\ pc = "idle"
    /\ \E in \in PackKeyInputs :
         \E r \in PackKey(in[1], in[2], in[3]) :
             /\ call' = Some([op |-> "PackKey", item |-> None, key |-> in[1],
                              params |-> in[2], opts |-> in[3]])
             /\ packed' = Some(r)
    /\ pc' = "packed"
    /\ UNCHANGED <<ucall, unpacked, gcall, got, gcall2, got2, dcall, dres, gv>>

\* the params Unpack is tried with after this Pack
UnpackParamsFor(c) ==
    IF c.op = "PackKey" \/ c.item \in BasicItems THEN UParamVariants
    ELSE {GoodUParams} \cup {Some(UParams(Some(l), Some("ok"), Some(GoodProvider)))
                               : l \in {"short", "more"}}

\* Unpack(ctx, data, params) of what the Pack or PackKey before it returned,
\* with a store that holds the rows of that Pack
UnpackCall ==
    /\ pc = "packed"
    /\ \E params \in UnpackParamsFor(Get(call)) :
         LET r == Get(packed)
             data == IF r.info = None THEN NoData ELSE Get(r.info)
             store == IF r.itemData = None THEN <<>> ELSE Get(r.itemData)
         IN /\ ucall' = Some([op |-> "Unpack", data |-> data, params |-> params])
            /\ unpacked' = Some(Unpack(data, params, store))
    /\ pc' = "unpacked"
    /\ UNCHANGED <<call, packed, gcall, got, gcall2, got2, dcall, dres, gv>>

\* UnpackKey(ctx, data, params) of what the PackKey before it returned; the
\* caller has no rows to load from
UnpackKeyCall ==
    /\ pc = "packed"
    /\ Get(call).op = "PackKey"
    /\ \E params \in UParamVariants :
         LET r == Get(packed)
             data == IF r.info = None THEN NoData ELSE Get(r.info)
         IN /\ ucall' = Some([op |-> "UnpackKey", data |-> data, params |-> params])
            /\ unpacked' = Some(UnpackKey(data, params, <<>>))
    /\ pc' = "unpacked"
    /\ UNCHANGED <<call, packed, gcall, got, gcall2, got2, dcall, dres, gv>>

\* Unpack(ctx, data, params) of data no Pack made
UnpackCrafted ==
    /\ pc = "idle"
    /\ \E data \in CraftedData, params \in UParamVariants :
         /\ ucall' = Some([op |-> "Unpack", data |-> data, params |-> params])
         /\ unpacked' = Some(Unpack(data, params, <<>>))
    /\ pc' = "unpacked"
    /\ UNCHANGED <<call, packed, gcall, got, gcall2, got2, dcall, dres, gv>>

\* the name lists GetValues is tried with: each name alone, all of them,
\* none, a name twice, a name with one that is no attribute
NameLists(e) ==
    {<<>>, <<"a">>, <<"b">>, <<"nope">>, <<"a", "a">>, <<"nope", "a">>}
    \cup {p \in Perms(DOMAIN e.attributes) : Len(p) > 1}

\* e.GetValues(ctx, attrs, provider) on the EncryptedItem Unpack returned,
\* with no provider, the packing one, one that finds it, one that does not
GetValuesCall ==
    /\ pc = "unpacked"
    /\ Get(unpacked).item /= None
    /\ \E attrs \in NameLists(Get(Get(unpacked).item)),
          provider \in {None} \cup {Some(Registered(n)) : n \in {"A", "B", "Bx"}} :
         \E r \in GetValues(Get(Get(unpacked).item), attrs, provider) :
             /\ gcall' = Some([attrs |-> attrs, provider |-> provider])
             /\ got' = Some(r)
    /\ pc' = "done"
    /\ UNCHANGED <<call, packed, ucall, unpacked, gcall2, got2, dcall, dres, gv>>

\* a second e.GetValues(ctx, attrs, provider) on the same EncryptedItem, as
\* the first call left it: the same names again or none, with the same
\* provider or a valid one
GetValuesAgain ==
    /\ pc = "done"
    /\ \E attrs \in {Get(gcall).attrs, <<>>},
          provider \in {Get(gcall).provider, Some(GoodProvider)} :
         \E r \in GetValues(Get(got).item, attrs, provider) :
             /\ gcall2' = Some([attrs |-> attrs, provider |-> provider])
             /\ got2' = Some(r)
    /\ pc' = "again"
    /\ UNCHANGED <<call, packed, ucall, unpacked, gcall, got, dcall, dres, gv>>

\* provider.Decrypt(ctx, wrapped) of a wrapped DEK some provider's New made
DecryptCall ==
    /\ pc = "idle"
    /\ \E in \in DecryptInputs :
         /\ dcall' = Some(in)
         /\ dres' = Some(ProviderDecrypt(Registered(in.by), in.w))
    /\ pc' = "decrypted"
    /\ UNCHANGED <<call, packed, ucall, unpacked, gcall, got, gcall2, got2, gv>>

Next ==
    \/ PackCall \/ PackKeyCall \/ UnpackCall \/ UnpackCrafted \/ GetValuesCall
    \/ GetValuesAgain \/ DecryptCall \/ UnpackKeyCall

Spec == Init /\ [][Next]_vars

(***************************************************************************)
(* EncryptedItem.GetValues step by step: the caller's goroutine and one     *)
(* goroutine per requested name, over a buffered channel and a WaitGroup.  *)
(* gv holds the state of one call.                                         *)
(***************************************************************************)
\* the other variables, which a GetValues call leaves alone
others == <<pc, call, packed, ucall, unpacked, gcall, got, gcall2, got2, dcall, dres>>

\* a channel nothing can be put into without a reader (C21 is tried
\* against it)
ChanCap_unbuffered(attrs) == 0

\* "c := make(chan *resp, len(attrs))"
ChanCap(attrs) == Len(attrs)

\* the call e.GetValues(ctx, attrs, provider) before its first statement
GVEntered(e, attrs, provider) ==
    [e |-> e, attrs |-> attrs, provider |-> provider, main |-> "start", key |-> "",
     decrypts |-> 0, spawned |-> 0,
     task |-> [t \in 1..Len(attrs) |-> "idle"],
     resp |-> [t \in 1..Len(attrs) |-> Resp("", "none", Val("", <<>>, ""), "")],
     sent |-> [t \in 1..Len(attrs) |-> 0],
     chan |-> <<>>, cap |-> 0, wg |-> 0, closed |-> FALSE, lateSend |-> FALSE,
     read |-> 0, m |-> <<>>, result |-> None]

\* GetValues returns r; "defer close(c)" runs when the channel was made
GVReturn(g, r) ==
    [g EXCEPT !.main = "returned", !.result = Some(r), !.closed = (g.main /= "start")]

\* a GetValues that starts its tasks whatever Decrypt returned (C22 is tried
\* against it)
GVAfterDecrypt_unchecked(g, k) ==
    [g EXCEPT !.main = "spawn", !.decrypts = @ + 1, !.key = k.dek, !.cap = ChanCap(g.attrs)]

\* "key, err := provider.Decrypt(ctx, e.encryptedKey); if err != nil { return
\* nil, err }", then the channel is made
GVAfterDecrypt(g, k) ==
    IF k.kind /= "ok"
    THEN [GVReturn(g, GResult(k.kind, k.err, None, g.e, <<"Decrypt">>)) EXCEPT !.decrypts = @ + 1]
    ELSE [g EXCEPT !.main = "spawn", !.decrypts = @ + 1, !.key = k.dek,
                   !.cap = ChanCap(g.attrs)]

\* the statements of GetValues up to the loop that starts the tasks
GVStart ==
    /\ gv /= None /\ Get(gv).main = "start"
    /\ LET g == Get(gv)
           early == GetValuesEarly(g.e, g.attrs, g.provider)
       IN gv' = Some(IF early /= None THEN GVReturn(g, Get(early))
                     ELSE GVAfterDecrypt(g, ProviderDecrypt(Get(g.provider), g.e.encryptedKey)))
    /\ UNCHANGED others

\* "wg.Add(1); go func(attr string) {...}(attrs[i])", and after the last one
\* the caller is at wg.Wait()
GVSpawn ==
    /\ gv /= None /\ Get(gv).main = "spawn"
    /\ LET g == Get(gv)
           t == g.spawned + 1
       IN gv' = Some([g EXCEPT !.spawned = t, !.wg = @ + 1, !.task[t] = "run",
                               !.main = IF t = Len(g.attrs) THEN "wait" ELSE "spawn"])
    /\ UNCHANGED others

\* the body of task t up to its return: resp is what it will send
GVTaskRun(t) ==
    /\ gv /= None /\ t \in DOMAIN Get(gv).task /\ Get(gv).task[t] = "run"
    /\ LET g == Get(gv)
       IN gv' = Some([g EXCEPT !.task[t] = "send",
                               !.resp[t] = Task(g.e, g.attrs[t], g.key)])
    /\ UNCHANGED others

\* the deferred "c <- resp" of task t: it waits while the channel is full,
\* and panics on a closed channel
GVTaskSend(t) ==
    /\ gv /= None /\ t \in DOMAIN Get(gv).task /\ Get(gv).task[t] = "send"
    /\ Get(gv).closed \/ Len(Get(gv).chan) < Get(gv).cap
    /\ LET g == Get(gv)
       IN gv' = Some(IF g.closed THEN [g EXCEPT !.task[t] = "done", !.lateSend = TRUE]
                     ELSE [g EXCEPT !.task[t] = "done", !.sent[t] = @ + 1,
                                    !.chan = Append(@, g.resp[t])])
    /\ UNCHANGED others

\* the deferred "wg.Done()" of task t, after which the goroutine is over; a
\* panic of its body, which nothing recovers, then ends the program
GVTaskDone(t) ==
    /\ gv /= None /\ t \in DOMAIN Get(gv).task /\ Get(gv).task[t] = "done"
    /\ gv' = Some([Get(gv) EXCEPT !.task[t] = "fin", !.wg = @ - 1,
                                   !.main = IF Get(gv).resp[t].kind = "panic" THEN "crashed"
                                            ELSE @])
    /\ UNCHANGED others

\* "wg.Wait()" returns
GVWait ==
    /\ gv /= None /\ Get(gv).main = "wait" /\ Get(gv).wg = 0
    /\ gv' = Some([Get(gv) EXCEPT !.main = "gather"])
    /\ UNCHANGED others

\* one round of "for range len(attrs) { resp := <-c ... }", or the return
\* after the last round
GVGather ==
    /\ gv /= None /\ Get(gv).main = "gather"
    /\ Get(gv).read = Len(Get(gv).attrs) \/ Len(Get(gv).chan) > 0
    /\ LET g == Get(gv)
           r == Head(g.chan)
       IN gv' = Some(IF g.read = Len(g.attrs)
                     THEN GVReturn(g, GResult("ok", "", Some(g.m), g.e, <<"Decrypt">>))
                     ELSE IF r.kind = "err"
                     THEN GVReturn([g EXCEPT !.chan = Tail(@), !.read = @ + 1],
                                   GResult("err", r.e, None, g.e, <<"Decrypt">>))
                     ELSE [g EXCEPT !.chan = Tail(@), !.read = @ + 1,
                                    !.m = IF r.kind = "ok" THEN Put(@, r.a, r.v) ELSE @])
    /\ UNCHANGED others

\* the EncryptedItems the calls are made on: what Unpack makes of a Pack of
\* one attribute, of two that decode, of two of which one or both fail
GVItems ==
    LET ins == {<<Some(Item("A", [n \in {"a"} |-> Value("T", <<"k1">>, "", 60)])), Opts(0, 0, 0)>>,
                <<Some(Item("A", [n \in {"a", "b"} |-> IF n = "a" THEN Value("plain", <<>>, "x", 100)
                                                     ELSE Value("T", <<"k1">>, "", 60)])),
                  Opts(0, 0, 0)>>,
                <<Some(Item("A", [n \in {"a", "b"} |-> IF n = "a" THEN Value("plain", <<>>, "z", 12000)
                                                     ELSE Value("plain", <<>>, "x", 100)])),
                  Opts(0, 10, 5)>>,
                <<Some(Item("A", [n \in {"a", "b"} |-> IF n = "a" THEN Value("plain", <<>>, "z", 12000)
                                                     ELSE Value("seqT", <<>>, "", 80)])),
                  Opts(0, 10, 5)>>}
        packs == UNION {{r \in Pack(in[1], GoodParams, in[2]) : r.kind = "ok"} : in \in ins}
        unpacks == {Unpack(Get(r.info), GoodUParams, Get(r.itemData)) : r \in packs}
    IN {Get(u.item) : u \in {x \in unpacks : x.kind = "ok"}}

\* tuples no createMaps writes, of arity 2 and more: a flag that is no
\* bool, a payload that is no byte string, a size that is no int64, a size
\* below zero, above and below the number of payload elements, and a
\* sequence of references whose size is right
CraftedTuples ==
    {<<I64(1), Bytes("k1")>>,
     <<Bool(TRUE), I64(0)>>,
     <<I64(1), I64(1), Bytes("k1")>>,
     <<Bool(TRUE), Bytes("k1"), Bytes("k2")>>,
     <<Bool(TRUE), I64(1), I64(7)>>,
     <<Bool(TRUE), I64(0 - 1), Bytes("k1")>>,
     <<Bool(TRUE), I64(2), Bytes("k1")>>,
     <<Bool(TRUE), I64(0), Bytes("k1")>>,
     <<Bool(FALSE), I64(1), Bytes("k1"), Bytes("k2")>>,
     <<Bool(FALSE), I64(2), Bytes("k1"), Bytes("k2")>>}

\* EncryptedItems whose attribute a is such a tuple under the item's DEK (a
\* loader may return any bytes), and one whose serialiser fails to unpack
GVCrafted ==
    LET base == {e \in GVItems : DOMAIN e.attributes = {"a"}}
    IN {[e EXCEPT !.attributes = [n \in {"a"} |-> <<Encrypt(tu, e.attributes["a"][1].c.dek, 60)>>]]
        : e \in base, tu \in CraftedTuples}
       \cup {[e EXCEPT !.packer = [@ EXCEPT !.mode = "err"]] : e \in base}

\* the name lists of the calls: up to MaxTasks names, repeated or not
GVNames == UNION {[1..n -> {"a", "b", "nope"}] : n \in 0..MaxTasks}

\* a call of GetValues is entered, nothing else goes on
InitGV ==
    /\ pc = "getvalues"
    /\ call = None /\ packed = None /\ ucall = None /\ unpacked = None
    /\ gcall = None /\ got = None /\ gcall2 = None /\ got2 = None
    /\ dcall = None /\ dres = None
    /\ gv \in {Some(GVEntered(e, attrs, provider)) :
                 e \in GVItems \cup GVCrafted, attrs \in GVNames,
                 provider \in {None, Some(GoodProvider), Some(Registered("Bx"))}}

NextGV ==
    \/ GVStart \/ GVSpawn \/ GVWait \/ GVGather
    \/ \E t \in 1..MaxTasks : GVTaskRun(t) \/ GVTaskSend(t) \/ GVTaskDone(t)

SpecGV == InitGV /\ [][NextGV]_vars

(***************************************************************************)
(* What the claims read of a state                                         *)
(***************************************************************************)
\* a Pack call was made (and not a PackKey call)
PackCalled == call /= None /\ Get(call).op = "Pack"
\* the Pack call returned no error
PackSucceeded == PackCalled /\ Get(packed).kind = "ok"
\* the attributes of the item given to Pack
ItemAttrs == Get(Get(call).item).Attributes
\* an Unpack call was made and has returned
Unpacked == unpacked /= None

\* a value C1 speaks of: plain, T, reference to T, non-empty sequence of T
RoundTripValue(v) ==
    v.fam \in {"plain", "T", "ptrT"} \/ (v.fam = "seqT" /\ Len(v.ks) > 0)
\* the decoded value g is the original v, family, order and content
SameValue(g, v) == g.fam = v.fam /\ g.ks = v.ks /\ g.id = v.id

\* Pack succeeded on an item of values C1 speaks of, and Unpack was called
\* with the same provider and a loader over the rows Pack returned
RoundTripCase ==
    /\ PackSucceeded
    /\ Get(call).params = GoodParams
    /\ \A n \in DOMAIN ItemAttrs : RoundTripValue(ItemAttrs[n])
    /\ Unpacked
    /\ Get(ucall).params = GoodUParams

\* GetValues([n]) was called for one attribute n of the item, same provider
GetOneCase ==
    /\ pc = "done"
    /\ Len(Get(gcall).attrs) = 1
    /\ Get(gcall).attrs[1] \in DOMAIN ItemAttrs
    /\ Get(gcall).provider = Some(GoodProvider)

\* the value GetValues returned for name n equals the original
ReturnsOriginal(n) ==
    /\ Get(got).kind = "ok"
    /\ n \in DOMAIN Get(Get(got).m)
    /\ SameValue(Get(Get(got).m)[n], ItemAttrs[n])

(***************************************************************************)
(* The claims                                                              *)
(***************************************************************************)
\* C1: round trip. For every item with a non-empty attribute map of plain
\* values, T, references to T and non-empty sequences of T, Pack followed by
\* Unpack (same provider, loader over the rows Pack produced) yields an
\* EncryptedItem whose key is item.Key, and GetValues([name]) returns for
\* every attribute a value equal to the original.
C1_RoundTrip ==
    RoundTripCase =>
        /\ Get(unpacked).kind = "ok"
        /\ Get(unpacked).item /= None
        /\ Get(Get(unpacked).item).key = Get(Get(call).item).Key
        /\ GetOneCase => ReturnsOriginal(Get(gcall).attrs[1])

\* the options of the call are the defaults: no size option was given
DefaultOptionsCall == Get(call).opts \in {Opts(UnknownVersion, 0, 0), Opts(V1, 0, 0)}
\* the encrypted blob of value v is longer than the default max_attr_value_size
LargeValue(v) == v.len > defaultAttributeMaxSize
\* the number of pieces of at most size bytes a blob of len bytes is cut into
ChunksOf(len, size) == (len + size - 1) \div size

\* C2: large attribute. Under the default options (max_attr_value_size
\* 100 KiB, max_size 350 KiB) an item with an attribute whose encrypted blob
\* is longer than max_attr_value_size packs without error (the one failure
\* allowed for is the random draw of row names running out of retries), the
\* blob is stored as ceil(len / 100 KiB) chunks, 12 for the 1,200,000-byte
\* value, and Unpack followed by GetValues returns the original value.
C2_LargeAttribute ==
    (/\ PackCalled /\ packed /= None
     /\ Get(call).params = GoodParams
     /\ DefaultOptionsCall
     /\ \E n \in DOMAIN ItemAttrs : LargeValue(ItemAttrs[n]))
    => /\ Get(packed).e \in {"", ErrUnableToCreateUniqueName}
       /\ PackSucceeded =>
            /\ \A n \in DOMAIN ItemAttrs :
                 LargeValue(ItemAttrs[n]) =>
                    Len(Get(packed).tr.attrMap[n])
                        = ChunksOf(ItemAttrs[n].len, defaultAttributeMaxSize)
            /\ (Unpacked /\ Get(ucall).params = GoodUParams) => Get(unpacked).kind = "ok"
            /\ (Unpacked /\ Get(ucall).params = GoodUParams /\ GetOneCase
                         /\ LargeValue(ItemAttrs[Get(gcall).attrs[1]]))
                 => ReturnsOriginal(Get(gcall).attrs[1])

\* the bytes of one row as createElements counts them: for each of its
\* pairs the length of the row name and the length of the chunk
RowBytes(row, nameLen) ==
    SumOver([n \in DOMAIN row |-> nameLen + SegLen(row[n])], DOMAIN row)

\* C3: row budget. In the row map of every successful Pack each row, the
\* primary one and every overflow row, holds at most max_size bytes of
\* names and chunks, and the primary row at most max_size - min_size.
C3_RowBudget ==
    PackSucceeded =>
        LET o == Get(Get(packed).tr.o)
            rows == Get(Get(packed).itemData)
        IN /\ \A k \in DOMAIN rows : RowBytes(rows[k], o.attrNameSize) <= o.maxSize
           /\ RowBytes(rows[Get(Get(call).item).Key], o.attrNameSize) <= o.maxSize - minSize

\* the positions <<attribute, index>> of the row names attr_map lists
Listed(am) == UNION {{<<n, i>> : i \in 1..Len(am[n])} : n \in DOMAIN am}

\* C4: row-name uniqueness. Within one Pack call the row names generated
\* for all attributes and all chunks are pairwise distinct: two different
\* positions of attr_map never list the same name, every listed name has its
\* chunk, and the chunk map has as many entries as attr_map lists names.
C4_UniqueRowNames ==
    PackSucceeded =>
        LET am == Get(packed).tr.attrMap
            vm == Get(packed).tr.valMap
        IN /\ \A p \in Listed(am), q \in Listed(am) :
                 p /= q => am[p[1]][p[2]] /= am[q[1]][q[2]]
           /\ \A p \in Listed(am) : am[p[1]][p[2]] \in DOMAIN vm
           /\ Cardinality(DOMAIN vm) = Cardinality(Listed(am))

\* a Pack of two attributes, one of them cut into chunks, succeeded
C4_Witness ==
    /\ PackSucceeded
    /\ Cardinality(DOMAIN ItemAttrs) >= 2
    /\ \E n \in DOMAIN ItemAttrs : Len(Get(packed).tr.attrMap[n]) >= 2
    /\ Cardinality(DOMAIN Get(packed).tr.valMap) >= 3

\* Pack returned error e with a nil envelope and a nil row map
PackRejected(e) ==
    /\ Get(packed).e = e
    /\ Get(packed).info = None
    /\ Get(packed).itemData = None

\* C5: Pack's validation order. Item nil or without attributes gives
\* ErrPackNoAttributes, also when params is nil; then params nil gives
\* ErrPackNoParams; then the first missing of Provider, Creator, Packer,
\* Approach gives ErrParamsNoProvider, ErrParamsNoIDCreator,
\* ErrParamsNoIDSerialiser, ErrParamsNoApproach; each with nil outputs.
C5_PackValidationOrder ==
    (PackCalled /\ packed /= None) =>
        LET item == Get(call).item
            params == Get(call).params
        IN IF item = None \/ DOMAIN Get(item).Attributes = {}
           THEN PackRejected(ErrPackNoAttributes)
           ELSE IF params = None THEN PackRejected(ErrPackNoParams)
           ELSE IF Get(params).Provider = None THEN PackRejected(ErrParamsNoProvider)
           ELSE IF Get(params).Creator = None THEN PackRejected(ErrParamsNoIDCreator)
           ELSE IF Get(params).Packer = None THEN PackRejected(ErrParamsNoIDSerialiser)
           ELSE IF Get(params).Approach = None THEN PackRejected(ErrParamsNoApproach)
           ELSE Get(packed).e \notin
                    {ErrPackNoAttributes, ErrPackNoParams, ErrParamsNoProvider,
                     ErrParamsNoIDCreator, ErrParamsNoIDSerialiser, ErrParamsNoApproach}

\* Pack of an item with attributes, with Provider set and both Creator and
\* Packer missing, returned ErrParamsNoIDCreator
C5_Witness ==
    /\ PackCalled /\ packed /= None
    /\ Get(call).item /= None /\ DOMAIN ItemAttrs /= {}
    /\ Get(call).params /= None
    /\ Get(Get(call).params).Provider /= None
    /\ Get(Get(call).params).Creator = None
    /\ Get(Get(call).params).Packer = None
    /\ PackRejected(ErrParamsNoIDCreator)

\* the call, Pack or PackKey, got past the checks of item, key and params
ArgumentsValid ==
    /\ call /= None /\ packed /= None
    /\ Get(call).op = "Pack" => (Get(call).item /= None /\ DOMAIN ItemAttrs /= {})
    /\ Get(call).op = "PackKey" => Get(call).key /= None
    /\ Get(call).params /= None
    /\ Get(Get(call).params).Provider /= None
    /\ Get(Get(call).params).Creator /= None
    /\ Get(Get(call).params).Packer /= None
    /\ Get(Get(call).params).Approach /= None

\* the max_size option of the call, in bytes (0: not set)
MaxSizeOption == Get(call).opts.maxKB * 1024
\* the max_attr_value_size option of the call, in bytes (0: not set)
AttrSizeOption == Get(call).opts.attrKB * 1024

ValidationErrors ==
    {ErrPackNoAttributes, ErrPackNoParams, ErrParamsNoProvider, ErrParamsNoIDCreator,
     ErrParamsNoIDSerialiser, ErrParamsNoApproach, ErrMaxSizeTooSmall, ErrKeyMustNotBeNil}

\* the max_size option of the call passes packItem's check
MaxSizeValid == MaxSizeOption = 0 \/ MaxSizeOption >= 10 * 1024

\* every chunk of every row is a piece of a ciphertext made under key dek
RowsUnder(rows, dek) ==
    \A k \in DOMAIN rows : \A n \in DOMAIN rows[k] : rows[k][n].c.dek = dek

\* C7: one DEK per call, none on rejected input. A Pack or PackKey call
\* that passes the checks of its arguments and options calls Provider.New
\* exactly once, the envelope of a successful call carries the wrapped DEK of
\* the call's provider, and every chunk is encrypted under that DEK; a call
\* turned away by validation calls neither Provider.New nor Creator.ID nor
\* Packer.Pack.
C7_OneDekPerCall ==
    (call /= None /\ packed /= None) =>
        LET r == Get(packed)
        IN /\ (ArgumentsValid /\ MaxSizeValid) =>
                /\ r.tr.nNew = 1
                /\ r.e \notin ValidationErrors
                /\ r.kind = "ok" =>
                     LET ek == Get(Get(r.info).outer).encryptedKey
                         prov == Get(Get(Get(call).params).Provider)
                     IN /\ ek.id = prov.id /\ ek.mk = prov.mk
                        /\ Get(Get(r.info).outer).inner.dek = ek.dek
                        /\ r.itemData /= None => RowsUnder(Get(r.itemData), ek.dek)
           /\ ~(ArgumentsValid /\ MaxSizeValid) =>
                /\ r.e \in ValidationErrors
                /\ r.tr.nNew = 0 /\ r.tr.nID = 0 /\ r.tr.nPack = 0

\* a Pack that made an overflow row succeeded, with its one call of
\* Provider.New
C7_Witness ==
    /\ PackSucceeded
    /\ Get(packed).tr.nNew = 1
    /\ Get(packed).tr.nID >= 1
    /\ Cardinality(DOMAIN Get(Get(packed).itemData)) >= 2

\* C8: failures are ordinary errors with nil outputs. No panic raised in
\* Pack, PackKey or Unpack, by a callback or by the engine, leaves the call;
\* whenever the error returned is non-nil the envelope and the row map, or
\* the EncryptedItem, are nil.
C8_FailuresAreErrors ==
    /\ packed /= None =>
         /\ Get(packed).kind \in {"ok", "err"}
         /\ Get(packed).kind = "ok" <=> Get(packed).e = ""
         /\ Get(packed).e /= "" => (Get(packed).info = None /\ Get(packed).itemData = None)
    /\ unpacked /= None =>
         /\ Get(unpacked).kind \in {"ok", "err"}
         /\ Get(unpacked).kind = "ok" <=> Get(unpacked).e = ""
         /\ Get(unpacked).e /= "" => Get(unpacked).item = None

\* Creator.ID panicked while Pack was making an overflow row, and Pack
\* returned that as an error, with nil outputs
C8_Witness ==
    /\ PackCalled /\ packed /= None
    /\ Get(packed).kind = "err"
    /\ Get(packed).e = Recovered("Creator.ID")
    /\ Get(packed).info = None /\ Get(packed).itemData = None

\* Unpack returned error e with a nil item and called no collaborator
UnpackRejected(e) ==
    /\ Get(unpacked).e = e
    /\ Get(unpacked).item = None
    /\ Get(unpacked).calls = <<>>

\* C9: Unpack's validation order. Empty or nil data gives ErrUnpackNoData,
\* also when params is nil; then params nil gives ErrUnpackNoParams; then
\* the first missing of DataLoader, IDRetriever, Provider gives
\* ErrDataLoaderIsNil, ErrIDRetrieverIsNil, ErrProviderIsNil; each with a nil
\* item and no callback invoked.
C9_UnpackValidationOrder ==
    (ucall /= None /\ unpacked /= None) =>
        LET data == Get(ucall).data
            params == Get(ucall).params
        IN IF data.empty THEN UnpackRejected(ErrUnpackNoData)
           ELSE IF params = None THEN UnpackRejected(ErrUnpackNoParams)
           ELSE IF Get(params).DataLoader = None THEN UnpackRejected(ErrDataLoaderIsNil)
           ELSE IF Get(params).IDRetriever = None THEN UnpackRejected(ErrIDRetrieverIsNil)
           ELSE IF Get(params).Provider = None THEN UnpackRejected(ErrProviderIsNil)
           ELSE Get(unpacked).e \notin
                    {ErrUnpackNoData, ErrUnpackNoParams, ErrDataLoaderIsNil,
                     ErrIDRetrieverIsNil, ErrProviderIsNil}

\* Unpack of data that is not empty, with DataLoader set and both
\* IDRetriever and Provider missing, returned ErrIDRetrieverIsNil
C9_Witness ==
    /\ ucall /= None /\ unpacked /= None
    /\ ~Get(ucall).data.empty
    /\ Get(ucall).params /= None
    /\ Get(Get(ucall).params).DataLoader /= None
    /\ Get(Get(ucall).params).IDRetriever = None
    /\ Get(Get(ucall).params).Provider = None
    /\ UnpackRejected(ErrIDRetrieverIsNil)

\* every successful Pack or PackKey output decodes to a tuple of two
\* elements, the first the int8 packing version 1
PrefixIsV1 ==
    (call /= None /\ packed /= None /\ Get(packed).kind = "ok") =>
        LET info == Get(Get(packed).info)
        IN /\ ~info.empty /\ info.dec
           /\ Len(info.tys) = 2
           /\ info.tys[1] = "int8"
           /\ info.ver = 1

\* Unpack was called, with all of its params set, on data that decodes to a
\* tuple of two elements whose first is an int8 version other than 1
OtherVersionCase ==
    /\ ucall /= None /\ unpacked /= None
    /\ Get(ucall).params /= None
    /\ Get(Get(ucall).params).DataLoader /= None
    /\ Get(Get(ucall).params).IDRetriever /= None
    /\ Get(Get(ucall).params).Provider /= None
    /\ ~Get(ucall).data.empty /\ Get(ucall).data.dec
    /\ Len(Get(ucall).data.tys) = 2
    /\ Get(ucall).data.tys[1] = "int8"
    /\ Get(ucall).data.ver /= 1

\* C10 as stated: version prefix. Every successful Pack or PackKey output
\* is a two-element tuple that starts with the int8 version 1, and Unpack of
\* any two-element tuple whose version is not 1 fails with
\* ErrUnsupportedPackVersion without calling a collaborator.
C10_AsStated ==
    /\ PrefixIsV1
    /\ OtherVersionCase => UnpackRejected(ErrUnsupportedPackVersion)

\* C10 amended: version prefix. Every successful Pack or PackKey output is a
\* two-element tuple that starts with the int8 version 1; Unpack of a tuple
\* [int8 version, byte string] whose version is not 1 fails with
\* ErrUnsupportedPackVersion without calling a collaborator, and Unpack of a
\* two-element tuple whose second element is no byte string fails with
\* ErrUnpackInvalidData whatever its version, also without a call.
C10_VersionPrefix ==
    /\ PrefixIsV1
    /\ OtherVersionCase =>
         IF Get(ucall).data.tys[2] = "bytes"
         THEN UnpackRejected(ErrUnsupportedPackVersion)
         ELSE UnpackRejected(ErrUnpackInvalidData)

\* Unpack turned away a tuple [int8 OutOfRange, byte string]
C10_Witness ==
    /\ OtherVersionCase
    /\ Get(ucall).data.tys[2] = "bytes"
    /\ Get(ucall).data.ver = OutOfRange
    /\ UnpackRejected(ErrUnsupportedPackVersion)

\* Decrypt was called by provider `by` on a wrapped DEK, not tampered with,
\* that provider `minter` made; the finder of `by` answers an id with a
\* provider of that id or with its error
DecryptCase ==
    /\ dcall /= None /\ ~Get(dcall).tampered
    /\ \A id \in EnvelopeKeyIDs :
          Registered(Get(dcall).by).finder[id] /= "" =>
              Registered(Registered(Get(dcall).by).finder[id]).id = id
\* the provider that decrypts and the provider that minted
Decrypter == Registered(Get(dcall).by)
Minter == Registered(Get(dcall).minter)
\* Decrypt returned the raw DEK that New returned with the wrapped one
ReturnsRawDek == Get(dres).kind = "ok" /\ Get(dres).dek = Get(dcall).raw

UnknownTo(prov, w) == prov.dmode = "ok" /\ w.id /= prov.id /\ prov.finder[w.id] = ""

\* the wrapped DEK in the envelope of the successful Pack or PackKey
PackedKey == Get(Get(Get(packed).info).outer).encryptedKey

\* Unpack was called on what a successful Pack or PackKey returned, with all
\* params set and an id retriever that returns a serialiser
UnpackOfPacked ==
    /\ call /= None /\ packed /= None /\ Get(packed).kind = "ok"
    /\ ucall /= None /\ unpacked /= None
    /\ Get(ucall).params /= None
    /\ Get(Get(ucall).params).DataLoader /= None
    /\ Get(Get(ucall).params).Provider /= None
    /\ Get(Get(ucall).params).IDRetriever
         \in {Some("ok"), Some("badPacker"), Some("panicPacker"), Some("nilPacker")}

\* GetValues was called with names and a provider
GetValuesWithProvider ==
    /\ gcall /= None /\ got /= None
    /\ Len(Get(gcall).attrs) > 0
    /\ Get(gcall).provider /= None

\* C12: unknown provider id. When the wrapped DEK names another id than
\* the decrypting provider's and the finder returns its error E for that id,
\* Decrypt returns E and no key, Unpack with that provider returns E and no
\* EncryptedItem, and GetValues with that provider returns E and a nil map.
C12_UnknownProviderID ==
    /\ (dcall /= None /\ UnknownTo(Decrypter, Get(dcall).w)) =>
         /\ Get(dres).kind = "err"
         /\ Get(dres).err = ErrUnknownProviderID
         /\ Get(dres).dek = ""
    /\ (UnpackOfPacked /\ UnknownTo(Get(Get(Get(ucall).params).Provider), PackedKey)) =>
         /\ Get(unpacked).kind = "err"
         /\ Get(unpacked).e = ErrUnknownProviderID
         /\ Get(unpacked).item = None
    /\ (GetValuesWithProvider
          /\ UnknownTo(Get(Get(gcall).provider), Get(Get(unpacked).item).encryptedKey)) =>
         /\ Get(got).kind = "err"
         /\ Get(got).e = ErrUnknownProviderID
         /\ Get(got).m = None

\* GetValues with a provider that does not know the packing provider's id
\* returned the finder's error
C12_Witness ==
    /\ GetValuesWithProvider
    /\ UnknownTo(Get(Get(gcall).provider), Get(Get(unpacked).item).encryptedKey)
    /\ Get(got).e = ErrUnknownProviderID
    /\ Get(got).m = None

\* Decrypt was called by a provider on a wrapped DEK that names the provider's
\* own id and does not authenticate under the provider's master key: it was
\* tampered with, or made under another master key with the same id
OwnIdBadCiphertext ==
    /\ dcall /= None
    /\ Decrypter.dmode = "ok"
    /\ Get(dcall).w.id = Decrypter.id
    /\ Get(dcall).w.mk /= Decrypter.mk

\* C13: single decrypt-error kind. When the wrapped DEK names the
\* provider's own id but its ciphertext does not authenticate under the
\* provider's master key, Decrypt fails with ErrKeyProviderDecryptError and no
\* key, whether the ciphertext was tampered with or made under another master
\* key with the same id.
C13_DecryptErrorKind ==
    OwnIdBadCiphertext =>
        /\ Get(dres).kind = "err"
        /\ Get(dres).err = ErrKeyProviderDecryptError
        /\ Get(dres).dek = ""

\* the EncryptedItem Unpack returned
TheItem == Get(Get(unpacked).item)

\* a GetValues result that is the empty non-nil map and no error, with no
\* call to the provider
EmptyMapNoCall(r) == r.kind = "ok" /\ r.e = "" /\ r.m = Some(<<>>) /\ r.calls = <<>>

\* a GetValues result that is ErrProviderIsNil and the nil map, with no call
\* to the provider
ProviderIsNilResult(r) ==
    r.kind = "err" /\ r.e = ErrProviderIsNil /\ r.m = None /\ r.calls = <<>>

\* the first GetValues was refused for its nil provider
RefusedForNilProvider ==
    gcall /= None /\ Len(Get(gcall).attrs) > 0 /\ Get(gcall).provider = None

\* C14: GetValues with no names returns the empty non-nil map and no
\* error without calling the provider, whatever the provider, nil included;
\* GetValues with names and a nil provider returns ErrProviderIsNil and the
\* nil map; and a call with a provider after that returns what it returns on
\* the EncryptedItem as Unpack made it.
C14_EmptyNamesNilProvider ==
    /\ (gcall /= None /\ Len(Get(gcall).attrs) = 0) => EmptyMapNoCall(Get(got))
    /\ (gcall2 /= None /\ Len(Get(gcall2).attrs) = 0) => EmptyMapNoCall(Get(got2))
    /\ RefusedForNilProvider => ProviderIsNilResult(Get(got))
    /\ (gcall2 /= None /\ Len(Get(gcall2).attrs) > 0 /\ Get(gcall2).provider = None)
         => ProviderIsNilResult(Get(got2))
    /\ (RefusedForNilProvider /\ gcall2 /= None) =>
         Get(got2) \in GetValues(TheItem, Get(gcall2).attrs, Get(gcall2).provider)

\* names were asked of a nil provider and refused, and the same names asked
\* again with a provider came back with their values
C14_Witness ==
    /\ RefusedForNilProvider
    /\ ProviderIsNilResult(Get(got))
    /\ gcall2 /= None
    /\ Get(gcall2).attrs = Get(gcall).attrs
    /\ Get(gcall2).provider = Some(GoodProvider)
    /\ Get(got2).kind = "ok"
    /\ Get(got2).m /= None
    /\ DOMAIN Get(Get(got2).m) /= {}

\* the names a GetValues call c asked for
Requested(c) == {c.attrs[i] : i \in 1..Len(c.attrs)}

\* C15: on success the map GetValues returns has an entry for exactly the
\* requested names that are attributes of the EncryptedItem, whatever value
\* they decode to, and a requested name that is no attribute adds no entry
\* and causes no error.
C15_OneEntryPerAttribute ==
    /\ (gcall /= None /\ Get(got).kind = "ok") =>
         DOMAIN Get(Get(got).m) = Requested(Get(gcall)) \cap DOMAIN TheItem.attributes
    /\ (gcall /= None /\ Get(gcall).provider = Some(GoodProvider)
          /\ Requested(Get(gcall)) \cap DOMAIN TheItem.attributes = {}) =>
         Get(got).kind = "ok"

\* the responses of the tasks of GetValues call c on EncryptedItem e, when
\* the provider of c hands back the DEK
Responses(e, c) ==
    IF Len(c.attrs) = 0 \/ c.provider = None
         \/ ProviderDecrypt(Get(c.provider), e.encryptedKey).kind /= "ok"
    THEN {}
    ELSE {Task(e, c.attrs[i], ProviderDecrypt(Get(c.provider), e.encryptedKey).dek)
            : i \in 1..Len(c.attrs)}

\* one of the tasks of call c on e ended with an error
OneFails(e, c) == \E r \in Responses(e, c) : r.kind = "err"

\* result r is the nil map and an error
NilMapAndError(r) == r.kind = "err" /\ r.m = None /\ r.e /= ""

\* C16: when decrypting or decoding one of the requested attributes
\* fails, GetValues returns the nil map and an error, also when the other
\* requested attributes decoded; a map is only ever returned with no error.
C16_NoPartialResult ==
    /\ (gcall /= None /\ OneFails(TheItem, Get(gcall))) => NilMapAndError(Get(got))
    /\ (gcall2 /= None /\ OneFails(Get(got).item, Get(gcall2))) => NilMapAndError(Get(got2))
    /\ (gcall /= None /\ Get(got).m /= None) => (Get(got).kind = "ok" /\ Get(got).e = "")
    /\ (gcall2 /= None /\ Get(got2).m /= None) => (Get(got2).kind = "ok" /\ Get(got2).e = "")

\* two attributes were asked for, one decoded and the other did not, and
\* GetValues returned the nil map and the error
C16_Witness ==
    /\ gcall /= None
    /\ \E r \in Responses(TheItem, Get(gcall)) : r.kind = "err"
    /\ \E r \in Responses(TheItem, Get(gcall)) : r.kind = "ok"
    /\ NilMapAndError(Get(got))

\* the map and the error of a GetValues result
Returned(r) == <<r.m, r.e>>

\* the EncryptedItem is, after each GetValues, as Unpack made it
ItemUntouched ==
    /\ gcall /= None => Get(got).item = TheItem
    /\ gcall2 /= None => Get(got2).item = TheItem

\* C17: GetValues leaves the EncryptedItem as it was (key, attribute
\* ciphertexts, wrapped DEK, approach, packer) after every call, and two
\* calls with the same names and the same provider return equal results.
C17_GetValuesIdempotent ==
    /\ ItemUntouched
    /\ (gcall2 /= None /\ Get(gcall2) = Get(gcall)) => Returned(Get(got2)) = Returned(Get(got))

\* PackKey was called
PackKeyCalled == call /= None /\ Get(call).op = "PackKey"

\* PackKey was called with a key and the valid params, and succeeded
PackKeySucceeded ==
    /\ PackKeyCalled
    /\ Get(call).key /= None
    /\ Get(call).params = GoodParams
    /\ Get(packed).kind = "ok"

\* the element list inside the bytes PackKey returned
PackedElements ==
    unpackElementsSlice(GoodPacker, Get(Get(Get(packed).info).outer).inner.bElements).ts

\* UnpackKey was called with a provider, an id retriever and a data loader
\* that work, the loader returning the rows asked for or a nil map
UnpackKeyCase ==
    /\ ucall /= None
    /\ Get(ucall).op = "UnpackKey"
    /\ Get(ucall).params \in {GoodUParams, Some(UParams(Some("nil"), Some("ok"), Some(GoodProvider)))}

\* C18: PackKey of a nil key returns ErrKeyMustNotBeNil and nil bytes.
\* PackKey of a key, empty components included, with valid params succeeds;
\* the element list it packs holds that key alone; and UnpackKey of its
\* bytes returns that key, also when the data loader returns a nil map.
C18_PackKeyRoundTrip ==
    /\ (PackKeyCalled /\ Get(call).key = None) =>
         /\ Get(packed).kind = "err"
         /\ Get(packed).e = ErrKeyMustNotBeNil
         /\ Get(packed).info = None
    /\ (PackKeyCalled /\ Get(call).key /= None /\ Get(call).params = GoodParams
          /\ MaxSizeValid) =>
         Get(packed).kind = "ok"
    /\ PackKeySucceeded => PackedElements = <<Get(Get(call).key)>>
    /\ (PackKeySucceeded /\ UnpackKeyCase) =>
         /\ Get(unpacked).kind = "ok"
         /\ Get(unpacked).key = Get(call).key

\* the key with empty components came back from UnpackKey with a loader that
\* returns a nil map
C18_Witness ==
    /\ PackKeySucceeded
    /\ Get(call).key = Some("")
    /\ ucall /= None
    /\ Get(ucall).op = "UnpackKey"
    /\ Get(ucall).params = Some(UParams(Some("nil"), Some("ok"), Some(GoodProvider)))
    /\ Get(unpacked).key = Some("")

\* Pack was called with valid arguments on an item whose one attribute is a
\* sequence of references to T
SeqOfReferencesCase ==
    /\ PackCalled
    /\ Get(call).item /= None
    /\ Get(call).params = GoodParams
    /\ MaxSizeValid
    /\ DOMAIN ItemAttrs = {"a"}
    /\ ItemAttrs["a"].fam = "seqPtrT"

\* C19: an attribute that is a sequence of n references to T is packed
\* reading the indices 0..n-1 only, so Pack succeeds, and GetValues returns a
\* sequence of n references to the same keys in order.
C19_SeqOfReferences ==
    SeqOfReferencesCase =>
        /\ Get(packed).kind = "ok"
        /\ GetOneCase => /\ Get(got).kind = "ok"
                         /\ Get(Get(got).m)["a"].fam = "seqPtrT"
                         /\ Get(Get(got).m)["a"].ks = ItemAttrs["a"].ks

\* the chunks named by rows, in order, are the whole blob of len bytes
WholeBlob(vm, rows, len) ==
    LET b == Reassemble(vm, rows, 1, <<>>)
    IN b /= None /\ Len(Get(b)) = 1 /\ Get(b)[1].lo = 0 /\ Get(b)[1].hi = len

\* C20: chunking is lossless. After a successful Pack with max_size >=
\* max_attr_value_size = m, attr_map lists for each attribute one row name
\* when its blob of L bytes has L <= m and ceil(L / m) row names when L > m,
\* every chunk but the last has m bytes, and the chunks in attr_map order
\* are the blob.
C20_ChunkingLossless ==
    (PackSucceeded /\ Get(Get(packed).tr.o).maxSize >= Get(Get(packed).tr.o).maxAttrValueSize) =>
        LET m == Get(Get(packed).tr.o).maxAttrValueSize
            am == Get(packed).tr.attrMap
            vm == Get(packed).tr.valMap
        IN \A n \in DOMAIN ItemAttrs :
              /\ Len(am[n]) = IF ItemAttrs[n].len <= m THEN 1 ELSE ChunksOf(ItemAttrs[n].len, m)
              /\ \A i \in 1..(Len(am[n]) - 1) : SegLen(vm[am[n][i]]) = m
              /\ WholeBlob(vm, am[n], ItemAttrs[n].len)

\* every task of call g is over
TasksOver(g) == \A t \in DOMAIN g.task : g.task[t] = "fin"

\* C21: GetValues starts one task per entry of the name list, each task
\* sends one response, and GetValues goes on past wg.Wait and returns only
\* when every task is over.  No task waits on a full channel, the caller
\* never waits on an empty one, and nothing is sent on the channel once it
\* is closed, also when GetValues returns on the first error it reads.
C21_TasksJoined ==
    LET g == Get(gv)
    IN /\ g.main \in {"wait", "gather"} =>
            /\ g.spawned = Len(g.attrs)
            /\ \A t \in DOMAIN g.task : g.task[t] /= "idle"
       /\ \A t \in DOMAIN g.task :
            /\ g.sent[t] <= 1
            /\ g.task[t] \in {"done", "fin"} => g.sent[t] = 1
            /\ g.task[t] = "send" => Len(g.chan) < g.cap
       /\ g.main = "wait" => (g.wg = 0 \/ \E t \in DOMAIN g.task : g.task[t] \in {"run", "send", "done"})
       /\ g.main = "gather" => (TasksOver(g) /\ (g.read < Len(g.attrs) => Len(g.chan) > 0))
       /\ g.main = "returned" => (g.spawned = 0 \/ (g.spawned = Len(g.attrs) /\ TasksOver(g)))
       /\ ~g.lateSend
       /\ g.closed => \A t \in DOMAIN g.task : g.task[t] \in {"idle", "fin"}

\* GetValues returned on the first error it read while a response was still
\* unread in the channel, both tasks being over
C21_Witness ==
    LET g == Get(gv)
    IN /\ g.main = "returned"
       /\ Get(g.result).kind = "err"
       /\ g.spawned = 2
       /\ g.read = 1
       /\ Len(g.chan) = 1
       /\ g.closed
       /\ TasksOver(g)

\* what the provider of call g hands back for the wrapped DEK of its item
DecryptOf(g) == ProviderDecrypt(Get(g.provider), g.e.encryptedKey)

\* call g has names and a provider
PastEarlyReturns(g) == Len(g.attrs) > 0 /\ g.provider /= None

\* C22: GetValues calls provider.Decrypt once per call, before any task
\* is started and however many names are asked for; when that Decrypt fails
\* no task is started and GetValues returns its error and the nil map.
C22_DecryptOnce ==
    LET g == Get(gv)
    IN /\ g.decrypts <= 1
       /\ (PastEarlyReturns(g) /\ g.main /= "start") => g.decrypts = 1
       /\ g.spawned > 0 =>
            /\ g.decrypts = 1
            /\ DecryptOf(g).kind = "ok"
            /\ g.key = DecryptOf(g).dek
       /\ (PastEarlyReturns(g) /\ g.main /= "start" /\ DecryptOf(g).kind /= "ok") =>
            /\ g.main = "returned"
            /\ g.spawned = 0
            /\ Get(g.result).e = DecryptOf(g).err
            /\ Get(g.result).m = None

\* two names were asked for, both tasks ran with the key of the one Decrypt
C22_Witness ==
    LET g == Get(gv)
    IN /\ Len(g.attrs) = 2
       /\ g.main = "returned"
       /\ TasksOver(g)
       /\ g.decrypts = 1
       /\ Get(g.result).kind = "ok"

\* the params of the Unpack or UnpackKey call, all of them set
UParamsSet ==
    /\ ucall /= None /\ unpacked /= None
    /\ Get(ucall).params /= None
    /\ Get(Get(ucall).params).DataLoader /= None
    /\ Get(Get(ucall).params).IDRetriever /= None
    /\ Get(Get(ucall).params).Provider /= None

\* what the provider of the Unpack call hands back for the wrapped DEK of
\* the outer frame
UnpackDecrypt ==
    ProviderDecrypt(Get(Get(Get(ucall).params).Provider),
                    Get(Get(ucall).data.outer).encryptedKey)

\* the element list the data loader is called with
LoaderElements ==
    unpackElementsSlice(IDRetrieve(Get(Get(Get(ucall).params).IDRetriever),
                                   Get(Get(ucall).data.outer).packer).packer,
                        Get(Get(ucall).data.outer).inner.bElements).ts

\* the key of the item given to Pack, or the key given to PackKey
PackedItemKey ==
    IF Get(call).op = "PackKey" THEN Get(Get(call).key) ELSE Get(Get(call).item).Key

\* C23: Unpack calls the id retriever, then provider.Decrypt, then the
\* data loader, each at most once; the loader only after Decrypt returned
\* the key the inner blob decrypts with, and with the decoded element list,
\* whose first entry is the item key; an error the provider or the loader
\* returns is what Unpack returns, with a nil EncryptedItem.
C23_UnpackOrder ==
    UParamsSet =>
        LET r == Get(unpacked)
        IN /\ r.calls \in {<<>>, <<"IDRetriever">>, <<"IDRetriever", "Decrypt">>,
                           <<"IDRetriever", "Decrypt", "DataLoader">>}
           /\ Len(r.calls) = 3 =>
                /\ UnpackDecrypt.kind = "ok"
                /\ UnpackDecrypt.dek = Get(Get(ucall).data.outer).inner.dek
                /\ call /= None =>
                     (Len(LoaderElements) > 0 /\ LoaderElements[1] = PackedItemKey)
           /\ (Len(r.calls) >= 2 /\ UnpackDecrypt.kind = "err") =>
                (r.calls = <<"IDRetriever", "Decrypt">> /\ r.kind = "err"
                   /\ r.e = UnpackDecrypt.err /\ r.item = None)
           /\ (Len(r.calls) = 3 /\ Get(Get(ucall).params).DataLoader = Some("err")) =>
                (r.kind = "err" /\ r.e = ErrCallback /\ r.item = None)

\* the data loader was called third, with the element list of a Pack, and
\* the error it returned is what Unpack returned
C23_Witness ==
    /\ UParamsSet
    /\ call /= None /\ Get(call).op = "Pack"
    /\ Get(Get(ucall).params).DataLoader = Some("err")
    /\ Get(unpacked).calls = <<"IDRetriever", "Decrypt", "DataLoader">>
    /\ LoaderElements[1] = PackedItemKey
    /\ Get(unpacked).e = ErrCallback
    /\ Get(unpacked).item = None

\* the rows the caller's loader reads from: those of the Pack before
UnpackStore ==
    IF Get(ucall).op = "Unpack" /\ packed /= None /\ Get(packed).itemData /= None
    THEN Get(Get(packed).itemData) ELSE <<>>

\* the map the data loader returned to Unpack
LoadedRows ==
    Load(Get(Get(Get(ucall).params).DataLoader), UnpackStore, LoaderElements).md

\* the row names of each attribute, as the envelope lists them
UnpackedAttrMap == unpackAttrMap(Get(Get(ucall).data.outer).inner.bAttrMap).attrMap

\* md[rows[1]] followed by md[rows[2]] and so on
RECURSIVE ConcatRows(_, _)
ConcatRows(md, rows) ==
    IF rows = <<>> THEN <<>>
    ELSE Join(ConcatRows(md, SubSeq(rows, 1, Len(rows) - 1)), md[rows[Len(rows)]])

\* the loader of an Unpack call was called and returned a map
LoaderReturnedRows ==
    /\ UParamsSet
    /\ Get(ucall).op = "Unpack"
    /\ Get(unpacked).calls = <<"IDRetriever", "Decrypt", "DataLoader">>
    /\ Get(Get(ucall).params).DataLoader \in {Some(l) : l \in {"rows", "nil", "short", "more"}}

\* a row name of the envelope that the loader's map has not
SomeRowMissing ==
    \E k \in DOMAIN UnpackedAttrMap :
        \E i \in 1..Len(UnpackedAttrMap[k]) : UnpackedAttrMap[k][i] \notin DOMAIN LoadedRows

\* C24: when the loader's map lacks a row name the envelope lists, Unpack
\* fails with ErrInvalidDataToUnpack and returns no EncryptedItem; otherwise
\* the ciphertext of each attribute is its chunks of the loader's map put
\* together in the order the envelope lists them, whatever other names the
\* map holds.
C24_Reassembly ==
    LoaderReturnedRows =>
        IF SomeRowMissing
        THEN /\ Get(unpacked).kind = "err"
             /\ Get(unpacked).e = ErrInvalidDataToUnpack
             /\ Get(unpacked).item = None
        ELSE /\ Get(unpacked).kind = "ok"
             /\ Get(unpacked).item /= None
             /\ DOMAIN Get(Get(unpacked).item).attributes = DOMAIN UnpackedAttrMap
             /\ \A k \in DOMAIN UnpackedAttrMap :
                  Get(Get(unpacked).item).attributes[k] = ConcatRows(LoadedRows, UnpackedAttrMap[k])

\* a loader that left out one row name of an attribute of several chunks
\* made Unpack fail
C24_Witness ==
    /\ LoaderReturnedRows
    /\ Get(Get(ucall).params).DataLoader = Some("short")
    /\ SomeRowMissing
    /\ \E k \in DOMAIN UnpackedAttrMap : Len(UnpackedAttrMap[k]) > 1
    /\ Get(unpacked).e = ErrInvalidDataToUnpack
    /\ Get(unpacked).item = None

\* the element list inside the bytes Pack returned, each entry the key its
\* bytes were packed from
PackedElementList ==
    LET b == Get(Get(Get(packed).info).outer).inner.bElements
    IN [i \in 1..Len(b) |-> b[i].s]

\* what the first n calls of Creator.ID of the Pack call return
CreatorKeys(n) ==
    [i \in 1..n |-> CreatorID(Get(Get(Get(call).params).Creator), i).t]

\* the numbers of bins first-fit may make of the chunk map of the Pack call
BinCounts ==
    LET d == [opts |-> Get(Get(packed).tr.o)]
        vals == Get(packed).tr.valMap
    IN {Len(BinPack(d, vals, rest, 1, <<>>))
        : rest \in UNION {SortedRests(vals, S) : S \in RestSets(d, vals)}}

\* every pair of the chunk map of the Pack call fits the primary budget
AllFitPrimary ==
    LET d == [opts |-> Get(Get(packed).tr.o)]
        vals == Get(packed).tr.valMap
    IN SumOver(PairSizes(d, vals), DOMAIN vals) <= PrimaryBudget(d)

\* C25: the element list of a successful Pack is the item's key followed by
\* what the n calls of Creator.ID returned, one call per overflow bin; the
\* keys of the row map are the entries of the element list; when every
\* chunk fits the primary budget Creator.ID is not called and the row map
\* has the item's key alone; when the created keys differ from each other
\* and from the item's key the row map has n + 1 rows.
C25_ElementList ==
    PackSucceeded =>
        LET n == Get(packed).tr.nID
            key == Get(Get(call).item).Key
            els == PackedElementList
            rows == Get(Get(packed).itemData)
        IN /\ els = <<key>> \o CreatorKeys(n)
           /\ DOMAIN rows = {els[i] : i \in 1..Len(els)}
           /\ n \in BinCounts
           /\ AllFitPrimary => (n = 0 /\ DOMAIN rows = {key})
           /\ Cardinality({els[i] : i \in 1..Len(els)}) = n + 1 =>
                Cardinality(DOMAIN rows) = n + 1

\* a Pack that made two overflow bins and was given distinct keys for them
C25_Witness ==
    /\ PackSucceeded
    /\ Get(packed).tr.nID = 2
    /\ PackedElementList = <<Get(Get(call).item).Key>> \o CreatorKeys(2)
    /\ Cardinality(DOMAIN Get(Get(packed).itemData)) = 3

\* the rows of the row map of the Pack call that hold the pair named nm
RowsHolding(nm) ==
    {k \in DOMAIN Get(Get(packed).itemData) : nm \in DOMAIN Get(Get(packed).itemData)[k]}

\* C26: bin-packing puts each (row name, chunk) pair of the item into exactly
\* one row of the row map: the primary row holds only pairs that fit its
\* budget of max_size - min_size, every other pair is in exactly one overflow
\* row; no pair is in two rows and none is dropped. Read where Creator.ID
\* gave keys that differ from each other and from the item's key.
C26_OnePairOneRow ==
    (PackSucceeded
        /\ Cardinality(DOMAIN Get(Get(packed).itemData)) = Get(packed).tr.nID + 1) =>
        LET o == Get(Get(packed).tr.o)
            rows == Get(Get(packed).itemData)
            vals == Get(packed).tr.valMap
        IN /\ \A nm \in DOMAIN vals :
                /\ Cardinality(RowsHolding(nm)) = 1
                /\ \A k \in RowsHolding(nm) : rows[k][nm] = vals[nm]
           /\ RowBytes(rows[Get(Get(call).item).Key], o.attrNameSize) <= o.maxSize - minSize

\* GetValues was asked for one attribute that Pack was given as a sequence
\* of T and stored as one chunk, on the item Unpack made of that Pack
SeqOfTCase ==
    /\ PackSucceeded
    /\ Get(call).params = GoodParams
    /\ Unpacked /\ Get(ucall).params = GoodUParams
    /\ GetOneCase
    /\ ItemAttrs[Get(gcall).attrs[1]].fam = "seqT"
    /\ Len(Get(packed).tr.attrMap[Get(gcall).attrs[1]]) = 1

\* the tuple [true, int64(n), pack(v[0]), ..., pack(v[n-1])] of the keys ks
SeqOfTTuple(ks) == <<Bool(TRUE), I64(Len(ks))>> \o [i \in 1..Len(ks) |-> Bytes(ks[i])]

\* C27: a sequence of T of any length n >= 0, the empty one included, is
\* stored as the tuple [true, int64(n), pack(v[0]), ..., pack(v[n-1])], and
\* GetValues decodes it to a sequence of T of length n with the same
\* elements in order: the decoder's choice by arity does not take it for a
\* tuple of another family.
C27_SeqOfT ==
    SeqOfTCase =>
        LET a == Get(gcall).attrs[1]
        IN /\ Get(packed).tr.valMap[Get(packed).tr.attrMap[a][1]].c.tuple
                = SeqOfTTuple(ItemAttrs[a].ks)
           /\ ReturnsOriginal(a)

\* what the claim counts as a structural mismatch of a tuple v of arity 2 or
\* more, read by an item whose serialiser is packer
PayloadBad(packer, x) == x.ty /= "bytes" \/ PackerUnpack(packer, x).kind /= "ok"
Mismatch(packer, v) ==
    \/ v[1].ty /= "bool"
    \/ Len(v) = 2 /\ PayloadBad(packer, v[2])
    \/ Len(v) > 2 /\ (\/ v[2].ty /= "int64"
                      \/ v[2].i < 0
                      \/ v[2].i /= Len(v) - 2
                      \/ \E i \in 3..Len(v) : PayloadBad(packer, v[i]))

\* the tasks of the call that have run their body on an attribute of the
\* item whose bytes decrypt to a tuple of arity 2 or more that mismatches
MismatchedTasks(g) ==
    {t \in DOMAIN g.task :
        /\ g.task[t] \notin {"idle", "run"}
        /\ g.attrs[t] \in DOMAIN g.e.attributes
        /\ LET v == Decrypt(g.e.attributes[g.attrs[t]], g.key)
           IN v.err = "" /\ Len(v.tuple) >= 2 /\ Mismatch(g.e.packer, v.tuple)}

\* C28: for a decrypted tuple of arity 2 or more every structural mismatch
\* (a flag that is no boolean, a payload that is no byte string or does not
\* unpack, a size that is no int64, is negative or is not arity - 2) makes
\* the task report ErrInvalidDataToUnpack and GetValues return an error and
\* no map; no task panics.
C28_StructuralMismatch ==
    LET g == Get(gv)
    IN /\ \A t \in MismatchedTasks(g) :
            g.resp[t].kind = "err" /\ g.resp[t].e = ErrInvalidDataToUnpack
       /\ \A t \in DOMAIN g.task : g.task[t] \notin {"idle", "run"} => g.resp[t].kind /= "panic"
       /\ g.main /= "crashed"
       /\ (g.main = "returned" /\ MismatchedTasks(g) /= {}) =>
            (Get(g.result).kind = "err" /\ Get(g.result).m = None)

\* the options in force in the Pack call, as the engine holds them
EngineOfCall == [opts |-> Get(Get(packed).tr.o)]

\* the sets of names a draw of the Pack call may have met: the names the
\* call used, and every part of them
UsedSets == SUBSET DOMAIN Get(packed).tr.valMap

\* C29: uniqueAttributeName draws at most attr_name_retries names (1 when
\* the option is not given) of length attr_name_size (6 when not given,
\* never below 2); it returns a name that was not in the used set and adds
\* that name alone to the set, or, every draw having met a used name,
\* returns ErrUnableToCreateUniqueName and leaves the set as it was, and
\* Pack then fails with that error.
C29_UniqueName ==
    (PackCalled /\ packed /= None /\ Get(packed).tr.o /= None) =>
        LET o == Get(Get(packed).tr.o)
            d == EngineOfCall
        IN /\ NameLen(d) >= 2
           /\ Get(call).opts.nameSize = 0 => NameLen(d) = 6
           /\ Get(call).opts.nameSize >= 2 => NameLen(d) = Get(call).opts.nameSize
           /\ Get(call).opts.retries = 0 => o.attrNameRetries = 1
           /\ \A existing \in UsedSets :
                \A r \in uniqueAttributeName(d, existing) :
                    /\ r.draws <= o.attrNameRetries
                    /\ \/ /\ r.err = ""
                          /\ r.name \notin existing
                          /\ r.used = existing \cup {r.name}
                       \/ /\ r.err = ErrUnableToCreateUniqueName
                          /\ r.draws = o.attrNameRetries
                          /\ existing /= {}
                          /\ r.used = existing
           /\ Get(packed).e = ErrUnableToCreateUniqueName =>
                /\ Get(packed).kind = "err"
                /\ Get(packed).info = None /\ Get(packed).itemData = None

\* a Pack with two retries whose draws all met a used name, and which failed
\* with ErrUnableToCreateUniqueName
C29_Witness ==
    /\ PackCalled /\ packed /= None /\ Get(packed).tr.o /= None
    /\ Get(Get(packed).tr.o).attrNameRetries = 2
    /\ Get(packed).e = ErrUnableToCreateUniqueName
    /\ Get(packed).info = None

\* the provider Decrypt was called on, and the one its finder returns for
\* the id the wrapped DEK names
DecryptingProvider == Registered(Get(dcall).by)
FoundProvider == Registered(DecryptingProvider.finder[Get(dcall).w.id])

\* the wrapped DEK names another id than the provider's, and its finder
\* returns a provider for it
Delegates ==
    /\ dcall /= None
    /\ Get(dcall).w.id /= DecryptingProvider.id
    /\ DecryptingProvider.finder[Get(dcall).w.id] /= ""

\* C30: when the finder returns, for the id the wrapped DEK names, a
\* provider of that id, Decrypt terminates having consulted the finder once
\* and handed the wrapped DEK on once: the provider found decrypts with its
\* own master key and consults no finder; and a wrapped DEK that names the
\* provider's own id is decrypted with no finder consulted.
C30_DecryptTerminates ==
    dcall /= None =>
        /\ (Delegates /\ FoundProvider.id = Get(dcall).w.id) =>
              /\ Get(dres).kind /= "diverges"
              /\ Get(dres).finds = <<DecryptingProvider.id>>
              /\ Get(dres).kind = LocalDecrypt(FoundProvider, Get(dcall).w).kind
              /\ Get(dres).err = LocalDecrypt(FoundProvider, Get(dcall).w).err
              /\ Get(dres).dek = LocalDecrypt(FoundProvider, Get(dcall).w).dek
        /\ Get(dcall).w.id = DecryptingProvider.id =>
              (Get(dres).finds = <<>> /\ Get(dres).kind /= "diverges")

\* B was handed a wrapped DEK of A: it asked its finder once and A decrypted
C30_Witness ==
    /\ Delegates
    /\ FoundProvider.id = Get(dcall).w.id
    /\ Get(dcall).by = "B"
    /\ Get(dres).kind = "ok"
    /\ Get(dres).dek = Get(dcall).raw
    /\ Get(dres).finds = <<"Key2">>

====
